---------------------------- MODULE Spec2Model ----------------------------
(***************************************************************************)
(* A model of my-tiny-agents (src/src/tiny_agents): the conversation       *)
(* memory (AgentMemory), the turn orchestrator (MyTinyAgent.execute_query) *)
(* and the session loop (run_interactive_session).                         *)
(*                                                                         *)
(* Text is a sequence of symbols.  The tokenizer (tiktoken) is an external *)
(* collaborator: one symbol encodes to one token.                          *)
(***************************************************************************)
EXTENDS Integers, Sequences, FiniteSets, TLC

VARIABLES
    max_tokens,     \* AgentMemory.max_tokens
    buffer,         \* AgentMemory.buffer
    mem_messages,   \* AgentMemory.messages, the durable log
    ret,            \* the last call made on the AgentMemory API and what it returned
    server_paths,   \* the server scripts given on the command line
    conn_idx,       \* connect_mcp_servers: how many paths have been tried
    sessions,       \* MyTinyAgent.sessions
    tools,          \* MyTinyAgent.tools
    tool_to_session, \* MyTinyAgent.tool_to_session
    exit_stack,     \* MyTinyAgent.exit_stack: the contexts entered on it, in order,
                    \* each with whether it is still open
    pc,             \* where the program is: connecting, reading input, awaiting the
                    \* model (llm1..llm3), executing tools (tools1, tools2), stopped
                    \* (the loop has ended), failed (an exception is on its way out
                    \* of main_agent), closed (shutdown has run)
    last_input,     \* what the session loop did with the last input
    cancel_requested, \* asyncio.run's interrupt handler has called cancel() on
                    \* the main task (task.cancelling() is not 0)
    must_cancel,    \* the cancellation asked for is still to be delivered, at
                    \* the main task's next suspension
    turns,          \* queries handed to execute_query so far
    next_id,        \* tool-call ids the model backend has issued so far
    messages,       \* execute_query: the in-flight message list
    output_parts,   \* execute_query: output_parts
    action_plan_displayed, \* execute_query: action_plan_displayed
    tool_calls,     \* _handle_tool_calls: the batch being executed
    tc_idx,         \* _handle_tool_calls: requests whose _execute_tool has begun
    outstanding,    \* ids of the provider calls awaiting their result
    llm_calls,      \* _invoke_llm invocations of the current turn
    tool_rounds,    \* _handle_tool_calls invocations of the current turn
    provider_calls, \* session.call_tool invocations of the current turn
    displayed,      \* panels shown during the current turn
    output,         \* what the last execute_query returned
    response        \* the model backend's latest answer in the current turn

mem_vars == <<max_tokens, buffer, mem_messages, ret>>

registry_vars == <<server_paths, conn_idx, sessions, tools, tool_to_session, exit_stack>>

turn_vars == <<messages, output_parts, action_plan_displayed, tool_calls, tc_idx,
               outstanding, llm_calls, tool_rounds, provider_calls, displayed, output,
               response>>

agent_vars == <<registry_vars, pc, last_input, cancel_requested, must_cancel, turns, next_id, turn_vars>>

vars == <<mem_vars, agent_vars>>

-----------------------------------------------------------------------------
(* Bounds of the model *)

MaxLog == 3         \* longest log the memory API is driven to
MaxBudget == 55     \* largest max_tokens tried
MaxBuffer == 1      \* largest response buffer tried
MaxSchemaTokens == 1 \* largest tool-schema reservation tried
MaxTurns == 2       \* queries per session
SessionBudget == 64 \* max_tokens of the sessions (scaled with the texts)
SessionBuffer == 0  \* response buffer of the sessions
MaxIds == 2         \* tool calls the model requests per session
MaxTurnIds == 3     \* tool calls the model requests in the single turn of SpecTurn
MaxContentIds == 2  \* tool calls the model requests in the turn of SpecContent
MaxProviderIds == 2 \* tool calls the model requests in the turn of SpecProviders
MaxLoopIds == 2     \* tool calls the model requests per session of SpecLoop
MaxMainIds == 2     \* tool calls the model requests in the turn of SpecMain
MaxEstimate == 2    \* longest list handed to calculate_token_count in SpecPure

(* Program constants *)

MessageOverhead == 4
ReplyPriming == 2

-----------------------------------------------------------------------------
(* schemas.py: Message *)

NoCalls == <<>>

Message(role, content, tcs, tool_call_id, name) ==
    [role |-> role, content |-> content, tool_calls |-> tcs,
     tool_call_id |-> tool_call_id, name |-> name]

Msg(role, content) == Message(role, content, NoCalls, "", "")

\* One entry of an assistant message's tool_calls list.
ToolCallEntry(id, name, arguments) ==
    [id |-> id, type |-> "function",
     function |-> [name |-> name, arguments |-> arguments]]

EmptyDict == [k \in {} |-> ""]

\* Variant: the content key is written for every role.
to_dict_ContentAlways(m) ==
    ("role" :> m.role)
    @@ ("content" :> m.content)
    @@ (IF m.tool_calls # <<>> THEN ("tool_calls" :> m.tool_calls) ELSE EmptyDict)
    @@ (IF m.tool_call_id # "" THEN ("tool_call_id" :> m.tool_call_id) ELSE EmptyDict)
    @@ (IF m.name # "" THEN ("name" :> m.name) ELSE EmptyDict)

\* Message.to_dict: the keys present depend on the role and on emptiness.
to_dict(m) ==
    ("role" :> m.role)
    @@ (IF m.role \in {"assistant", "user", "system"}
        THEN ("content" :> m.content)
        ELSE IF m.content # <<>> THEN ("content" :> m.content) ELSE EmptyDict)
    @@ (IF m.tool_calls # <<>> THEN ("tool_calls" :> m.tool_calls) ELSE EmptyDict)
    @@ (IF m.tool_call_id # "" THEN ("tool_call_id" :> m.tool_call_id) ELSE EmptyDict)
    @@ (IF m.name # "" THEN ("name" :> m.name) ELSE EmptyDict)

-----------------------------------------------------------------------------
(* AgentMemory *)

\* len(encoding.encode(text)): one token per symbol.
EncodeLen(text) == Len(text)

\* len(encoding.encode(json.dumps(tool_calls))): the brackets, and per entry
\* its punctuation with the id, the type, the name and the arguments.
DumpsLen(tcs) == 1 + 4 * Len(tcs)

RECURSIVE SumTokens(_, _)
SumTokens(msgs, i) ==
    IF i > Len(msgs) THEN 0
    ELSE MessageOverhead
         + (IF "content" \in DOMAIN msgs[i] /\ msgs[i]["content"] # <<>>
            THEN EncodeLen(msgs[i]["content"]) ELSE 0)
         + (IF "tool_calls" \in DOMAIN msgs[i]
            THEN DumpsLen(msgs[i]["tool_calls"]) ELSE 0)
         + SumTokens(msgs, i + 1)

\* Variant: the reply priming is added for every message.
calculate_token_count_PrimingPerMessage(msgs) ==
    SumTokens(msgs, 1) + ReplyPriming * Len(msgs)

calculate_token_count(msgs) == SumTokens(msgs, 1) + ReplyPriming

generate_summary ==
    [total |-> Len(mem_messages),
     tokens |-> calculate_token_count([i \in 1..Len(mem_messages) |-> to_dict(mem_messages[i])])]

Reserved(system_msg, current_msg, tools_tokens) ==
    calculate_token_count(<<to_dict(system_msg)>>)
    + calculate_token_count(<<to_dict(current_msg)>>)
    + tools_tokens
    + buffer

\* Variant: the reservation is forgotten and the whole budget is given to history.
AvailableWholeBudget(system_msg, current_msg, tools_tokens) == max_tokens

Available(system_msg, current_msg, tools_tokens) ==
    max_tokens - Reserved(system_msg, current_msg, tools_tokens)

\* Variant: trimmed.append(msg_dict) instead of trimmed.insert(0, msg_dict).
RECURSIVE TrimLoopAppend(_, _, _, _)
TrimLoopAppend(i, trimmed, used, available) ==
    IF i = 0 THEN [trimmed |-> trimmed, used |-> used]
    ELSE LET msg_dict == to_dict(mem_messages[i])
             msg_tokens == calculate_token_count(<<msg_dict>>)
         IN IF used + msg_tokens <= available
            THEN TrimLoopAppend(i - 1, Append(trimmed, msg_dict), used + msg_tokens, available)
            ELSE [trimmed |-> trimmed, used |-> used]

\* Variant: a message that does not fit is skipped and the loop goes on to the
\* older ones (continue instead of break).
RECURSIVE TrimLoopSkipping(_, _, _, _)
TrimLoopSkipping(i, trimmed, used, available) ==
    IF i = 0 THEN [trimmed |-> trimmed, used |-> used]
    ELSE LET msg_dict == to_dict(mem_messages[i])
             msg_tokens == calculate_token_count(<<msg_dict>>)
         IN IF used + msg_tokens <= available
            THEN TrimLoopSkipping(i - 1, <<msg_dict>> \o trimmed, used + msg_tokens, available)
            ELSE TrimLoopSkipping(i - 1, trimmed, used, available)

\* The loop over reversed(self.messages): i is the index of the message looked
\* at, trimmed and used are the loop's variables.
RECURSIVE TrimLoop(_, _, _, _)
TrimLoop(i, trimmed, used, available) ==
    IF i = 0 THEN [trimmed |-> trimmed, used |-> used]
    ELSE LET msg_dict == to_dict(mem_messages[i])
             msg_tokens == calculate_token_count(<<msg_dict>>)
         IN IF used + msg_tokens <= available
            THEN TrimLoop(i - 1, <<msg_dict>> \o trimmed, used + msg_tokens, available)
            ELSE [trimmed |-> trimmed, used |-> used]

NoticeContent(n) == <<"[Note:", ToString(n), "earlier", "messages", "trimmed]">>

\* Variant: the notice counts the messages kept instead of the messages trimmed.
TrimNoticeKept(n) == Msg("system", NoticeContent(Len(mem_messages) - n))

TrimNotice(n) == Msg("system", NoticeContent(n))

\* Variant: the notice is inserted without checking that it fits.
build_context_messages_NoticeUnchecked(system_msg, current_msg, tools_tokens) ==
    LET available == Available(system_msg, current_msg, tools_tokens)
    IN IF available <= 0 THEN <<>>
       ELSE LET r == TrimLoop(Len(mem_messages), <<>>, 0, available)
                notice == TrimNotice(Len(mem_messages) - Len(r.trimmed))
            IN IF Len(r.trimmed) < Len(mem_messages)
               THEN <<to_dict(notice)>> \o r.trimmed
               ELSE r.trimmed

build_context_messages(system_msg, current_msg, tools_tokens) ==
    LET available == Available(system_msg, current_msg, tools_tokens)
    IN IF available <= 0 THEN <<>>
       ELSE LET r == TrimLoop(Len(mem_messages), <<>>, 0, available)
                notice == TrimNotice(Len(mem_messages) - Len(r.trimmed))
            IN IF Len(r.trimmed) < Len(mem_messages)
                  /\ calculate_token_count(<<to_dict(notice)>>) + r.used <= available
               THEN <<to_dict(notice)>> \o r.trimmed
               ELSE r.trimmed

\* Variant: the log itself is cut down to the messages that were kept.
MessagesAfterBuildInPlace(system_msg, current_msg, tools_tokens) ==
    LET available == Available(system_msg, current_msg, tools_tokens)
        kept == IF available <= 0 THEN 0
                ELSE Len(TrimLoop(Len(mem_messages), <<>>, 0, available).trimmed)
    IN SubSeq(mem_messages, Len(mem_messages) - kept + 1, Len(mem_messages))

\* self.messages as build_context_messages leaves it: the method reads it only.
MessagesAfterBuild(system_msg, current_msg, tools_tokens) == mem_messages

-----------------------------------------------------------------------------
(* MyTinyAgent: construction and the provider registry *)

NoOutput == <<>>

\* The model has not answered in this turn.
NoResponse ==
    [failed |-> FALSE, error |-> "", content |-> <<>>, tool_calls |-> <<>>, none |-> TRUE]

\* No call has been made on the memory API.
NoRet == [op |-> "none"]

\* Message(role="system", content=self.config.system_prompt)
SystemMsg == Msg("system", <<"sys">>)

\* MyTinyAgent.__init__, with the turn's locals at rest.
AgentConstructed(paths) ==
    /\ server_paths = paths
    /\ conn_idx = 0
    /\ sessions = <<>>
    /\ tools = <<>>
    /\ tool_to_session = EmptyDict
    /\ exit_stack = <<>>
    /\ pc = "connecting"
    /\ last_input = "none"
    /\ cancel_requested = FALSE
    /\ must_cancel = FALSE
    /\ turns = 0
    /\ next_id = 0
    /\ messages = <<>>
    /\ output_parts = <<>>
    /\ action_plan_displayed = FALSE
    /\ tool_calls = <<>>
    /\ tc_idx = 0
    /\ outstanding = {}
    /\ llm_calls = 0
    /\ tool_rounds = 0
    /\ provider_calls = <<>>
    /\ displayed = <<>>
    /\ output = NoOutput
    /\ response = NoResponse

\* The tools a provider script lists (session.list_tools).
ProviderTools(path) ==
    IF path = "a.py" THEN <<"t1">>
    ELSE IF path = "b.py" THEN <<"t1", "t2">>
    ELSE <<>>

\* Variant: every path is taken for a server script.
RecognizedExtensionAny(path) == TRUE

\* server_path.endswith((".py", ".js"))
RecognizedExtension(path) == path \in {"a.py", "b.py", "c.js"}

RECURSIVE RegisterToolsFirstWins(_, _, _)
\* Variant: a name already registered keeps its provider.
RegisterToolsFirstWins(map, names, session) ==
    IF names = <<>> THEN map
    ELSE RegisterToolsFirstWins(map @@ (Head(names) :> session), Tail(names), session)

RECURSIVE RegisterTools(_, _, _)
\* for tool in response.tools: self.tool_to_session[tool.name] = session
RegisterTools(map, names, session) ==
    IF names = <<>> THEN map
    ELSE RegisterTools((Head(names) :> session) @@ map, Tail(names), session)

\* A context entered with exit_stack.enter_async_context: open until its exit
\* releases it; exit tells whether aclose() has run its exit ("none"), to the
\* end ("done") or up to a CancelledError raised inside it ("cut").
Context(kind, path) == [kind |-> kind, path |-> path, open |-> TRUE, exit |-> "none"]

\* What connect_mcp_server may have entered on the exit stack when it returns
\* or raises: nothing for a path that is no script; the transport and the
\* client session when it succeeds; when it fails, nothing (stdio_client
\* failed), the transport (ClientSession failed), or both (initialize or
\* list_tools failed).
EnteredContexts(path, ok) ==
    IF ~RecognizedExtension(path) THEN { <<>> }
    ELSE IF ok THEN { <<Context("stdio", path), Context("session", path)>> }
    ELSE { <<>>, <<Context("stdio", path)>>,
           <<Context("stdio", path), Context("session", path)>> }

\* connect_mcp_servers, one pass of its loop: connect_mcp_server(path) with
\* the transport's outcome, a ServerConnectionError being printed and skipped.
ConnectServer(ok) ==
    /\ pc = "connecting"
    /\ conn_idx < Len(server_paths)
    /\ LET path == server_paths[conn_idx + 1]
       IN IF RecognizedExtension(path) /\ ok
          THEN /\ sessions' = Append(sessions, path)
               /\ tools' = tools \o [i \in 1..Len(ProviderTools(path)) |->
                                        [name |-> ProviderTools(path)[i], session |-> path]]
               /\ tool_to_session' = RegisterTools(tool_to_session, ProviderTools(path), path)
          ELSE UNCHANGED <<sessions, tools, tool_to_session>>
    /\ \E entered \in EnteredContexts(server_paths[conn_idx + 1], ok) :
          exit_stack' = exit_stack \o entered
    /\ conn_idx' = conn_idx + 1
    /\ pc' = IF conn_idx + 1 = Len(server_paths) THEN "reading" ELSE "connecting"
    /\ UNCHANGED <<server_paths, mem_vars, last_input, cancel_requested, must_cancel, turns,
                   next_id, turn_vars>>

\* An interrupt signal while connect_mcp_server(path) is suspended at one of
\* its awaits, under an asyncio.run that handles the signal itself: the main
\* task is cancelled there.  CancelledError passes the except Exception of
\* connect_mcp_server and the except ServerConnectionError of
\* connect_mcp_servers and leaves main_agent's try block, with whatever the
\* connection had entered on the exit stack.
CancelledConnecting ==
    /\ pc = "connecting"
    /\ conn_idx < Len(server_paths)
    /\ RecognizedExtension(server_paths[conn_idx + 1])
    /\ \E entered \in EnteredContexts(server_paths[conn_idx + 1], FALSE) :
          exit_stack' = exit_stack \o entered
    /\ conn_idx' = conn_idx + 1
    /\ cancel_requested' = TRUE
    /\ pc' = "failed"
    /\ UNCHANGED <<server_paths, sessions, tools, tool_to_session, mem_vars, last_input,
                   must_cancel, turns, next_id, turn_vars>>

\* What a provider declares for a tool besides its name (tool.description and
\* tool.inputSchema, here {"type": "object"}).
ToolDescription(name) == "d " \o name

InputSchema == [type |-> "object"]

\* build_tool_schemas: one schema per entry of self.tools.
build_tool_schemas ==
    [i \in 1..Len(tools) |->
        [type |-> "function",
         function |-> [name |-> tools[i].name,
                       description |-> ToolDescription(tools[i].name),
                       parameters |-> InputSchema]]]

\* The characters json.dumps writes for one schema besides the name, the
\* description and the parameters: the keys, "function" and the punctuation.
SchemaFrameChars == 77

\* The characters of json.dumps(tool.inputSchema): {"type": "object"}.
InputSchemaChars == 18

\* The characters of json.dumps of a text: the text between two quotes.
QuotedChars(text) == Len(text) + 2

RECURSIVE SchemasChars(_, _)
\* The characters of the schemas from the i-th on, ", " between two of them.
SchemasChars(schemas, i) ==
    IF i > Len(schemas) THEN 0
    ELSE SchemaFrameChars
         + QuotedChars(schemas[i].function.name)
         + QuotedChars(schemas[i].function.description)
         + InputSchemaChars
         + (IF i < Len(schemas) THEN 2 ELSE 0)
         + SchemasChars(schemas, i + 1)

\* len(json.dumps(tool_schemas)) // 4
ToolsTokens(schemas) == (2 + SchemasChars(schemas, 1)) \div 4

-----------------------------------------------------------------------------
(* The session loop: run_interactive_session *)

\* The lines typed at the prompt: nothing, blanks, the commands, in other case
\* and with blanks around them, and a query.
Inputs == {"", "  ", "quit", "clear", "Clear", " Clear ", " clear ", "history", "q"}

\* query.strip() on the texts typed in the sessions.
StripInput(input) ==
    IF input = "  " THEN ""
    ELSE IF input = " Clear " THEN "Clear"
    ELSE IF input = " clear " THEN "clear"
    ELSE input

\* Variant: the prompt returns the line as typed.
PromptAskRaw(typed) == typed

\* query = Prompt.ask(...): the prompt returns the typed line without its
\* leading and trailing blanks.
PromptAsk(typed) == StripInput(typed)

\* query.lower()
LowerInput(input) ==
    IF input = "Clear" THEN "clear"
    ELSE IF input = " Clear " THEN " clear "
    ELSE input

COMMANDS == {"quit", "clear", "history"}

IsCommand(input) == LowerInput(input) \in COMMANDS

\* What every pass of the loop that runs no query leaves alone.
LoopFrame == UNCHANGED <<max_tokens, buffer, ret, registry_vars, cancel_requested, must_cancel, turns, next_id, turn_vars>>

\* In the steps of the loop input is the line typed at the prompt and
\* PromptAsk(input) the query the loop receives.
EmptyInput(input) ==
    /\ pc = "reading"
    /\ StripInput(PromptAsk(input)) = ""
    /\ last_input' = "empty"
    /\ UNCHANGED <<pc, mem_messages>>
    /\ LoopFrame

\* Variant: quit leaves the loop whatever the confirmation says.
QuitBreaksAlways(confirmed) == TRUE

\* if await handler(): break
QuitBreaks(confirmed) == confirmed

QuitCommand(input, confirmed) ==
    /\ pc = "reading"
    /\ StripInput(PromptAsk(input)) # ""
    /\ LowerInput(PromptAsk(input)) = "quit"
    /\ pc' = IF QuitBreaks(confirmed) THEN "stopped" ELSE "reading"
    /\ last_input' = IF confirmed THEN "quit" ELSE "quit declined"
    /\ UNCHANGED mem_messages
    /\ LoopFrame

\* Variant: clear drops only the oldest message.
ClearedLogOldestOnly == IF mem_messages = <<>> THEN <<>> ELSE Tail(mem_messages)

\* AgentMemory.clear_history: self.messages = []
ClearedLog == <<>>

ClearCommand(input) ==
    /\ pc = "reading"
    /\ StripInput(PromptAsk(input)) # ""
    /\ LowerInput(PromptAsk(input)) = "clear"
    /\ mem_messages' = ClearedLog
    /\ last_input' = "clear"
    /\ UNCHANGED pc
    /\ LoopFrame

\* execute_history_command names Panel, which __main__.py does not import: the
\* NameError is raised before generate_summary is called, and the loop's
\* except Exception shows it.
HistoryCommand(input) ==
    /\ pc = "reading"
    /\ StripInput(PromptAsk(input)) # ""
    /\ LowerInput(PromptAsk(input)) = "history"
    /\ last_input' = "history error"
    /\ UNCHANGED <<pc, mem_messages>>
    /\ LoopFrame

\* KeyboardInterrupt raised in Prompt.ask: the loop's except clause prints the
\* hint and continues.
Interrupt ==
    /\ pc = "reading"
    /\ last_input' = "interrupt"
    /\ UNCHANGED <<pc, mem_messages>>
    /\ LoopFrame

\* An interrupt signal while Prompt.ask reads, under an asyncio.run that
\* handles the signal itself (Python 3.11 and later): the first signal raises
\* nothing in the loop, the main task is marked for cancellation and the prompt
\* keeps waiting.
InterruptDeferred ==
    /\ pc = "reading"
    /\ ~cancel_requested
    /\ cancel_requested' = TRUE
    /\ must_cancel' = TRUE
    /\ UNCHANGED <<mem_vars, registry_vars, pc, last_input, turns, next_id, turn_vars>>

\* CancelledError is raised inside execute_query: it is a BaseException, so
\* neither _invoke_llm's and execute_query's except Exception nor the loop's
\* two except clauses catch it; it leaves run_interactive_session and the
\* turn's locals go with it.
TurnCancelled ==
    /\ pc' = "failed"
    /\ must_cancel' = FALSE
    /\ messages' = <<>>
    /\ tool_calls' = <<>>
    /\ tc_idx' = 0
    /\ outstanding' = {}
    /\ output_parts' = <<>>
    /\ action_plan_displayed' = FALSE
    /\ UNCHANGED <<mem_vars, registry_vars, last_input, turns, next_id, llm_calls, tool_rounds,
                   provider_calls, displayed, output, response>>

\* The pending cancellation is delivered at the first suspension, the await
\* of the first model call.
Cancelled ==
    /\ pc = "llm1"
    /\ must_cancel
    /\ TurnCancelled
    /\ UNCHANGED cancel_requested

\* The first interrupt signal arrives while the turn is suspended, in the
\* await of a model call or of session.call_tool: the main task is cancelled
\* there.
CancelledInTurn ==
    /\ \/ pc \in {"llm1", "llm2", "llm3"}
       \/ pc \in {"tools1", "tools2"} /\ outstanding # {}
    /\ ~cancel_requested
    /\ cancel_requested' = TRUE
    /\ TurnCancelled

\* Variant: the loop takes the agent for connected whatever sessions holds.
ConnectedAlways == TRUE

\* if not self.sessions: ... continue
Connected == sessions # <<>>

RejectQuery(input) ==
    /\ pc = "reading"
    /\ StripInput(PromptAsk(input)) # ""
    /\ ~IsCommand(PromptAsk(input))
    /\ ~Connected
    /\ last_input' = "rejected"
    /\ UNCHANGED <<pc, mem_messages>>
    /\ LoopFrame

-----------------------------------------------------------------------------
(* Text: find, slices and strip on sequences of symbols *)

Whitespace == {" ", "\n", "\n\n"}

AnalysisStart == "<analysis>"
AnalysisEnd == "</analysis>"
PlanMarker == "Action Plan:"
DoubleBreak == "\n\n"

RECURSIVE FindFrom(_, _, _)
\* str.find(sym, i): the first position >= i holding sym, 0 for none.
FindFrom(text, sym, i) ==
    IF i > Len(text) THEN 0
    ELSE IF text[i] = sym THEN i
    ELSE FindFrom(text, sym, i + 1)

Find(text, sym) == FindFrom(text, sym, 1)

Contains(text, sym) == Find(text, sym) # 0

RECURSIVE LStrip(_)
LStrip(text) ==
    IF text # <<>> /\ Head(text) \in Whitespace THEN LStrip(Tail(text)) ELSE text

RECURSIVE RStrip(_)
RStrip(text) ==
    IF text # <<>> /\ text[Len(text)] \in Whitespace
    THEN RStrip(SubSeq(text, 1, Len(text) - 1)) ELSE text

Strip(text) == RStrip(LStrip(text))

\* str.lower() of one symbol.
LowerSym(sym) ==
    IF sym = "Done" THEN "done"
    ELSE IF sym = "Saved" THEN "saved"
    ELSE sym

CompletionMarkers ==
    {"completed", "summary", "finished", "done", "successfully", "saved", "created"}

\* Variant: the keywords are looked for in the content as written, not lowered.
HasCompletionMarkerCaseSensitive(text) ==
    \E i \in 1..Len(text) : text[i] \in CompletionMarkers

\* any(marker in final_content.lower() for marker in [...])
HasCompletionMarker(text) ==
    \E i \in 1..Len(text) : LowerSym(text[i]) \in CompletionMarkers

RECURSIVE JoinFrom(_, _, _)
\* "\n".join(filter(None, parts))
JoinFrom(parts, i, acc) ==
    IF i > Len(parts) THEN acc
    ELSE IF parts[i] = <<>> THEN JoinFrom(parts, i + 1, acc)
    ELSE JoinFrom(parts, i + 1, IF acc = <<>> THEN parts[i] ELSE acc \o <<"\n">> \o parts[i])

Join(parts) == JoinFrom(parts, 1, <<>>)

-----------------------------------------------------------------------------
(* execute_query: the first model call *)

Panel(kind, text) == [panel |-> kind, text |-> text]

\* Message(role="user", content=query)
QueryText(query) == <<query>>

\* Variant: the list ends with the history, as if the current message had been
\* added to the log before the history was built.
FirstCallMessagesFromLog(system_msg, history, current_msg) ==
    <<to_dict(system_msg)>> \o history

\* messages = [system_msg.to_dict()] + history + [current_msg.to_dict()]
FirstCallMessages(system_msg, history, current_msg) ==
    <<to_dict(system_msg)>> \o history \o <<to_dict(current_msg)>>

StartQuery(input) ==
    /\ pc = "reading"
    /\ StripInput(PromptAsk(input)) # ""
    /\ ~IsCommand(PromptAsk(input))
    /\ Connected
    /\ turns < MaxTurns
    /\ LET system_msg == SystemMsg
           current_msg == Msg("user", QueryText(PromptAsk(input)))
           tools_tokens == ToolsTokens(build_tool_schemas)
           history == build_context_messages(system_msg, current_msg, tools_tokens)
       IN /\ messages' = FirstCallMessages(system_msg, history, current_msg)
          /\ mem_messages' = Append(mem_messages, current_msg)
    /\ pc' = "llm1"
    /\ llm_calls' = 1
    /\ tool_rounds' = 0
    /\ provider_calls' = <<>>
    /\ displayed' = <<>>
    /\ output' = NoOutput
    /\ response' = NoResponse
    /\ output_parts' = <<>>
    /\ action_plan_displayed' = FALSE
    /\ turns' = turns + 1
    /\ last_input' = "query"
    /\ UNCHANGED <<max_tokens, buffer, ret, registry_vars, cancel_requested, must_cancel, next_id, tool_calls, tc_idx,
                   outstanding>>

\* raise AgentError(f"Failed to invoke LLM: {e}")
AgentErrorText(exc) == "Failed to invoke LLM: " \o exc

\* error_msg = f"Failed to get response: {e}", e being the AgentError of the
\* first model call.
FirstErrorText(exc) == <<"Failed to get response:", AgentErrorText(exc)>>

\* error_msg = f"[Failed to get final response: {e}]", e being whatever
\* exception reached the handler, of text exc.
FinalErrorText(exc) == <<"[Failed to get final response:", exc, "]">>

NoContentText == <<"[No content or tool calls received]">>

\* A closing console-markup tag that no tag opens.
BadTag == "[/x]"

\* str(MarkupError): the message of the console's markup renderer for a
\* closing tag met at position pos of the rendered text.
MarkupErrorText(pos) ==
    "closing tag '[/x]' at position " \o ToString(pos) \o " doesn't match any open tag"

\* The texts of the model that hold the closing tag: the tag, and the error
\* messages that quote it.  The tag stands at position 0 of an analysis block
\* made of it, and at position 97 of the text display_tool_execution renders
\* for a tool name of two characters and the arguments {"q": "[/x]"}.
HoldsBadTag(text) == text \in {BadTag, MarkupErrorText(0), MarkupErrorText(97)}

\* The text of the exception a malformed answer raises, here
\* str(IndexError) of response.choices[0] on an answer without choices.
MalformedText == "list index out of range"

\* The analysis block of the first response: whether it is recognised, what
\* the panel receives and what remains of the content.
AnalysisFires(content) ==
    /\ content # <<>>
    /\ Contains(content, AnalysisStart)
    /\ Find(content, AnalysisEnd) # 0

AnalysisContent(content) ==
    Strip(SubSeq(content, Find(content, AnalysisStart) + 1, Find(content, AnalysisEnd) - 1))

AfterAnalysis(content) ==
    IF AnalysisFires(content)
    THEN Strip(SubSeq(content, 1, Find(content, AnalysisStart) - 1)
               \o SubSeq(content, Find(content, AnalysisEnd) + 1, Len(content)))
    ELSE content

PlanFires(content) == content # <<>> /\ Contains(content, PlanMarker)

\* message.content[plan_start:plan_end]
PlanSegment(content) ==
    LET plan_start == Find(content, PlanMarker)
        brk == FindFrom(content, DoubleBreak, plan_start)
        plan_end == IF brk = 0 THEN Len(content) + 1 ELSE brk
    IN SubSeq(content, plan_start, plan_end - 1)

\* The panels the first response opens, in order.
FirstPanels(content) ==
    (IF AnalysisFires(content) THEN <<Panel("analysis", AnalysisContent(content))>> ELSE <<>>)
    \o (IF PlanFires(AfterAnalysis(content))
        THEN <<Panel("plan", PlanSegment(AfterAnalysis(content)))>> ELSE <<>>)

\* output_parts after the marker checks of the first response.
FirstParts(content) ==
    IF PlanFires(AfterAnalysis(content)) THEN <<>>
    ELSE IF AfterAnalysis(content) # <<>> /\ ~AnalysisFires(content)
    THEN <<AfterAnalysis(content)>>
    ELSE <<>>

\* display_analysis and display_action_plan hand the block to the console as
\* markup: a block that holds the closing tag raises MarkupError.
PanelRaises(panel) == \E k \in 1..Len(panel.text) : HoldsBadTag(panel.text[k])

\* The panels of the first response that are shown: those before the first
\* one that raises.
RECURSIVE ShownPanels(_)
ShownPanels(panels) ==
    IF panels = <<>> \/ PanelRaises(Head(panels)) THEN <<>>
    ELSE <<Head(panels)>> \o ShownPanels(Tail(panels))

\* An exception of text exc leaves execute_query and reaches the loop's
\* except Exception, which calls display_error(e).  display_error hands
\* "Error: <type>: <text>" to the console as markup, so for a text that holds
\* the closing tag it raises MarkupError inside the handler, and that
\* exception leaves run_interactive_session; otherwise the error is shown
\* and the loop reads the next input.  The turn's locals go with the
\* exception.
TurnRaises(exc) ==
    /\ pc' = IF HoldsBadTag(exc) THEN "failed" ELSE "reading"
    /\ last_input' = "error"
    /\ messages' = <<>>
    /\ tool_calls' = <<>>
    /\ tc_idx' = 0
    /\ outstanding' = {}
    /\ output_parts' = <<>>
    /\ action_plan_displayed' = FALSE

\* The first answer is handled outside the try of the first call, so an
\* exception raised there leaves execute_query: MarkupError from the panel of
\* an analysis block or action plan that holds the closing tag, or the
\* exception of a malformed answer (response.choices[0] before the panels,
\* message.tool_calls and its entries after them).
AbortTurn(content) ==
    /\ pc = "llm1"
    /\ ~must_cancel
    /\ displayed' = displayed \o ShownPanels(FirstPanels(content))
    /\ TurnRaises(IF ShownPanels(FirstPanels(content)) # FirstPanels(content)
                  THEN MarkupErrorText(0) ELSE MalformedText)
    /\ UNCHANGED <<mem_vars, registry_vars, cancel_requested, must_cancel, turns, next_id,
                   llm_calls, tool_rounds, provider_calls, output, response>>

\* return "\n".join(filter(None, output_parts))
ReturnValue(parts) == Join(parts)

\* execute_query returns out; the loop shows it and reads the next input.
EndTurn(out) ==
    /\ pc' = "reading"
    /\ output' = out
    /\ messages' = <<>>
    /\ tool_calls' = <<>>
    /\ tc_idx' = 0
    /\ output_parts' = <<>>
    /\ action_plan_displayed' = FALSE

\* The model backend's answer: a failure, litellm.acompletion raising an
\* exception whose text is exc, or content and tool-call requests.
Failure(exc) ==
    [failed |-> TRUE, error |-> exc, content |-> <<>>, tool_calls |-> <<>>, none |-> FALSE]

Response(content, tcs) ==
    [failed |-> FALSE, error |-> "", content |-> content, tool_calls |-> tcs, none |-> FALSE]

\* The first tool round begins: _handle_tool_calls(tool_calls, messages).
LLMRespond1(resp) ==
    /\ pc = "llm1"
    /\ ~must_cancel
    /\ ShownPanels(FirstPanels(resp.content)) = FirstPanels(resp.content)
    /\ next_id' = next_id + Len(resp.tool_calls)
    /\ response' = resp
    /\ UNCHANGED <<max_tokens, buffer, ret, registry_vars, cancel_requested, must_cancel, last_input, turns, outstanding,
                   llm_calls, provider_calls>>
    /\ IF resp.failed
       THEN /\ mem_messages' = Append(mem_messages, Msg("assistant", FirstErrorText(resp.error)))
            /\ EndTurn(FirstErrorText(resp.error))
            /\ UNCHANGED <<tool_rounds, displayed>>
       ELSE LET content == AfterAnalysis(resp.content)
                parts == FirstParts(resp.content)
            IN /\ displayed' = displayed \o FirstPanels(resp.content)
               /\ IF resp.tool_calls # <<>>
                  THEN LET assistant_msg ==
                               Message("assistant", content, resp.tool_calls, "", "")
                       IN /\ messages' = Append(messages, to_dict(assistant_msg))
                          /\ mem_messages' = Append(mem_messages, assistant_msg)
                          /\ tool_calls' = resp.tool_calls
                          /\ tc_idx' = 0
                          /\ tool_rounds' = tool_rounds + 1
                          /\ output_parts' = parts
                          /\ action_plan_displayed' = PlanFires(content)
                          /\ pc' = "tools1"
                          /\ UNCHANGED output
                  ELSE IF content # <<>>
                  THEN /\ mem_messages' = Append(mem_messages, Msg("assistant", content))
                       /\ EndTurn(ReturnValue(parts))
                       /\ UNCHANGED tool_rounds
                  ELSE /\ mem_messages' = Append(mem_messages, Msg("assistant", NoContentText))
                       /\ EndTurn(ReturnValue(Append(parts, NoContentText)))
                       /\ UNCHANGED tool_rounds

-----------------------------------------------------------------------------
(* _handle_tool_calls and _execute_tool *)

\* tool_call.function.arguments as the model sends it: "ok" is a JSON text,
\* "markup" the JSON text {"q": "[/x]"}, "bad" a text that is no JSON, and
\* "none" no text at all (None).

\* json.loads(tool_call.function.arguments): a value, or the exception raised.
Loads(arguments) ==
    IF arguments \in {"ok", "markup"} THEN "value"
    ELSE IF arguments = "bad" THEN "JSONDecodeError"
    ELSE "TypeError"

\* json.loads(tool_call.function.arguments) succeeds.
ValidJSON(arguments) == Loads(arguments) = "value"

\* str(TypeError) of json.loads(None).
TypeErrorText == "the JSON object must be str, bytes or bytearray, not NoneType"

\* display_tool_execution(tool_name, tool_args) hands the name and the dumped
\* arguments to the console as markup: it raises MarkupError when a string of
\* the arguments holds the closing tag.
DisplayToolExecutionRaises(arguments) == arguments = "markup" /\ HoldsBadTag(BadTag)

\* The text of the exception that leaves _execute_tool before the provider is
\* called, "" when none does: json.loads raises TypeError, which the except
\* json.JSONDecodeError does not catch, or display_tool_execution, called
\* outside any try, raises MarkupError.
ExecuteToolException(tc) ==
    IF Loads(tc.function.arguments) = "TypeError" THEN TypeErrorText
    ELSE IF ValidJSON(tc.function.arguments)
            /\ DisplayToolExecutionRaises(tc.function.arguments)
    THEN MarkupErrorText(97)
    ELSE ""

ParseErrorText == <<"Error: Could not parse arguments.", "JSONDecodeError">>
NotFoundText(name) == <<"Error: Tool execution failed.", "Tool not found", name>>
CallFailedText == <<"Error: Tool execution failed.", "provider error">>
NoContentReturned == <<"No content returned">>

\* What session.call_tool can do: raise, return a first text item, return no content.
ProviderResults == {"error", "text", "empty"}

ResultText(result) ==
    IF result = "error" THEN CallFailedText
    ELSE IF result = "text" THEN <<"r">>
    ELSE NoContentReturned

\* Variant: every tool message is tagged with one fixed id.
ToolMessageFixedId(tc, content) ==
    Message("tool", content, NoCalls, "call_0", tc.function.name)

\* Variant: the tool message of a failed call is tagged with no tool_call_id.
ToolMessageUntagged(tc, content) ==
    Message("tool", content, NoCalls, "", tc.function.name)

\* Message(role="tool", tool_call_id=tool_call.id, name=tool_name, content=...)
ToolMessage(tc, content) ==
    Message("tool", content, NoCalls, tc.id, tc.function.name)

\* Variant: the calls of a batch are started without awaiting the previous one.
CanStartNextConcurrently == tc_idx < Len(tool_calls)

\* for idx, tool_call in enumerate(tool_calls, 1): result = await self._execute_tool(...)
CanStartNext == tc_idx < Len(tool_calls) /\ outstanding = {}

InTools == pc \in {"tools1", "tools2"}

\* After a step of the batch: when the loop is over, the model is invoked again.
AfterToolStep(idx, out) ==
    IF idx = Len(tool_calls) /\ out = {}
    THEN /\ pc' = (IF pc = "tools1" THEN "llm2" ELSE "llm3")
         /\ llm_calls' = llm_calls + 1
    ELSE UNCHANGED <<pc, llm_calls>>

ToolFrame ==
    UNCHANGED <<max_tokens, buffer, ret, registry_vars, cancel_requested, must_cancel, last_input, turns, next_id,
                output_parts, action_plan_displayed, tool_calls, tool_rounds,
                displayed, output, response>>

\* _execute_tool up to the provider call: the arguments are parsed and the tool
\* resolved; either fails with a tool message, else the call is sent.
ExecuteToolBegin ==
    /\ InTools
    /\ CanStartNext
    /\ ExecuteToolException(tool_calls[tc_idx + 1]) = ""
    /\ LET tc == tool_calls[tc_idx + 1]
           tool_name == tc.function.name
       IN IF ~ValidJSON(tc.function.arguments)
          THEN /\ messages' = Append(messages, to_dict(ToolMessage(tc, ParseErrorText)))
               /\ mem_messages' = Append(mem_messages, ToolMessage(tc, ParseErrorText))
               /\ UNCHANGED <<outstanding, provider_calls>>
          ELSE IF tool_name \notin DOMAIN tool_to_session
          THEN /\ messages' = Append(messages, to_dict(ToolMessage(tc, NotFoundText(tool_name))))
               /\ mem_messages' = Append(mem_messages, ToolMessage(tc, NotFoundText(tool_name)))
               /\ UNCHANGED <<outstanding, provider_calls>>
          ELSE /\ provider_calls' = Append(provider_calls,
                      [id |-> tc.id, name |-> tool_name, session |-> tool_to_session[tool_name]])
               /\ outstanding' = outstanding \cup {tc.id}
               /\ UNCHANGED <<messages, mem_messages>>
    /\ tc_idx' = tc_idx + 1
    /\ AfterToolStep(tc_idx', outstanding')
    /\ ToolFrame

\* Variant: a provider call that raised is sent once more.
ExecuteToolEndRetrying(id, result) ==
    /\ InTools
    /\ id \in outstanding
    /\ LET tc == CHOOSE t \in {tool_calls[i] : i \in 1..Len(tool_calls)} : t.id = id
       IN IF result = "error" /\ Cardinality({i \in 1..Len(provider_calls) :
                                                 provider_calls[i].id = id}) = 1
          THEN /\ provider_calls' = Append(provider_calls,
                      [id |-> id, name |-> tc.function.name,
                       session |-> tool_to_session[tc.function.name]])
               /\ UNCHANGED <<messages, mem_messages, outstanding, pc, llm_calls>>
          ELSE /\ messages' = Append(messages, to_dict(ToolMessage(tc, ResultText(result))))
               /\ mem_messages' = Append(mem_messages, ToolMessage(tc, ResultText(result)))
               /\ outstanding' = outstanding \ {id}
               /\ AfterToolStep(tc_idx, outstanding')
               /\ UNCHANGED provider_calls
    /\ UNCHANGED tc_idx
    /\ ToolFrame

\* The rest of _execute_tool: the provider call of request id returns or raises.
ExecuteToolEnd(id, result) ==
    /\ InTools
    /\ id \in outstanding
    /\ LET tc == CHOOSE t \in {tool_calls[i] : i \in 1..Len(tool_calls)} : t.id = id
       IN /\ messages' = Append(messages, to_dict(ToolMessage(tc, ResultText(result))))
          /\ mem_messages' = Append(mem_messages, ToolMessage(tc, ResultText(result)))
    /\ outstanding' = outstanding \ {id}
    /\ AfterToolStep(tc_idx, outstanding')
    /\ UNCHANGED <<tc_idx, provider_calls>>
    /\ ToolFrame

-----------------------------------------------------------------------------
(* execute_query: the follow-up model calls *)

\* Variant: the analysis block of a later response is stripped as well.
FinalContentAnalysisStripped(content) ==
    IF Contains(AfterAnalysis(content), PlanMarker) /\ action_plan_displayed
    THEN (IF Find(AfterAnalysis(content), PlanMarker) > 1
          THEN Strip(SubSeq(AfterAnalysis(content), 1,
                            Find(AfterAnalysis(content), PlanMarker) - 1))
          ELSE <<>>)
    ELSE AfterAnalysis(content)

\* final_content after the duplicate action plan is skipped.
FinalContent(content) ==
    IF Contains(content, PlanMarker) /\ action_plan_displayed
    THEN (IF Find(content, PlanMarker) > 1
          THEN Strip(SubSeq(content, 1, Find(content, PlanMarker) - 1)) ELSE <<>>)
    ELSE content

\* Variant: what is recorded is the content left after the routing.
FinalRecordedRouted(resp) == FinalContent(resp.content)

\* Message(role="assistant", content=final_response.choices[0].message.content)
FinalRecorded(resp) == resp.content

\* The response treated as final: its content is routed and recorded.
FinalResponse(resp) ==
    /\ IF resp.content # <<>>
       THEN LET final_content == FinalContent(resp.content)
                completed == final_content # <<>> /\ HasCompletionMarker(final_content)
                parts == IF final_content # <<>> /\ ~completed
                         THEN Append(output_parts, final_content) ELSE output_parts
            IN /\ displayed' = IF completed
                               THEN Append(displayed, Panel("completed", final_content))
                               ELSE displayed
               /\ mem_messages' = Append(mem_messages, Msg("assistant", FinalRecorded(resp)))
               /\ EndTurn(ReturnValue(parts))
       ELSE /\ EndTurn(ReturnValue(output_parts))
            /\ UNCHANGED <<mem_messages, displayed>>
    /\ UNCHANGED tool_rounds

\* Variant: a failed follow-up call is reported but not recorded in the log.
FinalFailureUnrecorded(exc) ==
    /\ EndTurn(ReturnValue(Append(output_parts, FinalErrorText(exc))))
    /\ UNCHANGED <<mem_messages, tool_rounds, displayed>>

\* except Exception as e around the follow-up calls, e of text exc.
FinalFailure(exc) ==
    /\ mem_messages' = Append(mem_messages, Msg("assistant", FinalErrorText(exc)))
    /\ EndTurn(ReturnValue(Append(output_parts, FinalErrorText(exc))))
    /\ UNCHANGED <<tool_rounds, displayed>>

\* _execute_tool raises on the next request of the batch, which ends the
\* round: no tool message is made for that request and the requests after it
\* are not executed.  No try encloses the first round, so there the exception
\* leaves execute_query; in the second round the except Exception around the
\* follow-up calls ends the turn with its text.
ExecuteToolRaises ==
    /\ InTools
    /\ CanStartNext
    /\ LET exc == ExecuteToolException(tool_calls[tc_idx + 1])
       IN /\ exc # ""
          /\ IF pc = "tools1"
             THEN /\ TurnRaises(exc)
                  /\ UNCHANGED <<mem_vars, tool_rounds, displayed, output>>
             ELSE /\ FinalFailure(exc)
                  /\ UNCHANGED <<max_tokens, buffer, ret, last_input, outstanding>>
    /\ UNCHANGED <<registry_vars, cancel_requested, must_cancel, turns, next_id, llm_calls,
                   provider_calls, response>>

\* The answer to a follow-up call is malformed: final_response.choices[0]
\* raises inside the try around the follow-up calls.
MalformedFollowUp ==
    /\ pc \in {"llm2", "llm3"}
    /\ FinalFailure(MalformedText)
    /\ UNCHANGED <<max_tokens, buffer, ret, registry_vars, cancel_requested, must_cancel,
                   last_input, turns, next_id, outstanding, llm_calls, provider_calls,
                   response>>

\* Variant: every follow-up response that requests tools starts another round.
SecondRoundWhileRequested(resp) == resp.tool_calls # <<>>

\* if final_response.choices[0].message.tool_calls: tested once, on the response
\* to the call made after the first round.
SecondRound(resp) == pc = "llm2" /\ resp.tool_calls # <<>>

\* A response to a follow-up call: a failure, a second tool round, or final.
FollowUp(resp) ==
    /\ next_id' = next_id + Len(resp.tool_calls)
    /\ response' = resp
    /\ UNCHANGED <<max_tokens, buffer, ret, registry_vars, cancel_requested, must_cancel, last_input, turns, outstanding,
                   llm_calls, provider_calls>>
    /\ IF resp.failed THEN FinalFailure(AgentErrorText(resp.error))
       ELSE IF SecondRound(resp)
       THEN LET assistant_msg2 == Message("assistant", resp.content, resp.tool_calls, "", "")
            IN /\ messages' = Append(messages, to_dict(assistant_msg2))
               /\ mem_messages' = Append(mem_messages, assistant_msg2)
               /\ tool_calls' = resp.tool_calls
               /\ tc_idx' = 0
               /\ tool_rounds' = tool_rounds + 1
               /\ pc' = "tools2"
               /\ UNCHANGED <<output_parts, action_plan_displayed, displayed, output>>
       ELSE FinalResponse(resp)

\* The response to the call made after the first tool round.
LLMRespond2(resp) == pc = "llm2" /\ FollowUp(resp)

\* The response to the call made after the second tool round.
LLMRespond3(resp) == pc = "llm3" /\ FollowUp(resp)

-----------------------------------------------------------------------------
(* The whole program *)

ResponseContents == {<<>>, <<"w">>}

\* The requests the model makes: a known tool with good or bad arguments, an
\* unknown tool.
RequestKinds ==
    { [name |-> "t1", arguments |-> "ok"],
      [name |-> "t1", arguments |-> "bad"],
      [name |-> "zz", arguments |-> "ok"] }

CallId(k) == "call_" \o ToString(k)

\* What the sessions' model requests and what their provider answers.
SessionRequestKinds == { [name |-> "t1", arguments |-> "ok"] }

SessionResults == {"error", "text"}

\* The answers the model backend may give while fewer than cap ids are issued,
\* its requests being of the given kinds and its texts among contents.
ModelResponsesOf(cap, request_kinds, contents) ==
    {Failure("boom")} \cup {Response(c, <<>>) : c \in contents}
    \cup UNION { { Response(c, [i \in 1..n |-> ToolCallEntry(CallId(next_id + i),
                                        kinds[i].name, kinds[i].arguments)]) :
                   c \in contents, kinds \in [1..n -> request_kinds] } :
                 n \in 1..(cap - next_id) }

ModelResponses(cap, request_kinds) ==
    ModelResponsesOf(cap, request_kinds, ResponseContents)

Init ==
    /\ max_tokens = SessionBudget
    /\ buffer = SessionBuffer
    /\ mem_messages = <<>>
    /\ ret = NoRet
    /\ AgentConstructed(<<"a.py">>)

Next ==
    \/ \E ok \in BOOLEAN : ConnectServer(ok)
    \/ CancelledConnecting
    \/ \E input \in Inputs : EmptyInput(input)
    \/ \E input \in Inputs, confirmed \in BOOLEAN : QuitCommand(input, confirmed)
    \/ \E input \in Inputs : ClearCommand(input)
    \/ \E input \in Inputs : HistoryCommand(input)
    \/ Interrupt
    \/ InterruptDeferred
    \/ Cancelled
    \/ CancelledInTurn
    \/ \E input \in Inputs : RejectQuery(input)
    \/ \E input \in Inputs : StartQuery(input)
    \/ \E resp \in ModelResponses(MaxIds, SessionRequestKinds) : LLMRespond1(resp)
    \/ ExecuteToolBegin
    \/ \E id \in outstanding, result \in SessionResults : ExecuteToolEnd(id, result)
    \/ \E resp \in ModelResponses(MaxIds, SessionRequestKinds) : LLMRespond2(resp)
    \/ \E resp \in ModelResponses(MaxIds, SessionRequestKinds) : LLMRespond3(resp)

Spec == Init /\ [][Next]_vars

\* The requests of the turns that raise: those above, one whose arguments hold
\* the closing tag and one whose arguments are no text.
RaisingRequestKinds ==
    RequestKinds \cup { [name |-> "t1", arguments |-> "markup"],
                        [name |-> "t1", arguments |-> "none"] }

\* One query put to a freshly connected agent, with more tool calls to
\* request; the backend fails with one of two texts.
TurnNext ==
    \/ \E ok \in BOOLEAN : ConnectServer(ok)
    \/ \E input \in Inputs : turns = 0 /\ StartQuery(input)
    \/ \E resp \in ModelResponses(MaxTurnIds, RaisingRequestKinds) \cup {Failure("timeout")} :
          LLMRespond1(resp)
    \/ ExecuteToolBegin
    \/ ExecuteToolRaises
    \/ \E id \in outstanding, result \in ProviderResults : ExecuteToolEnd(id, result)
    \/ \E resp \in ModelResponses(MaxTurnIds, RaisingRequestKinds) \cup {Failure("timeout")} :
          LLMRespond2(resp)
    \/ \E resp \in ModelResponses(MaxTurnIds, RaisingRequestKinds) \cup {Failure("timeout")} :
          LLMRespond3(resp)

SpecTurn == Init /\ [][TurnNext]_vars

\* The content of the example: an analysis block followed by text.
AnalysisExample == <<AnalysisStart, "check disk space", AnalysisEnd, "All good.">>

\* Texts that take the different routes of the content handling: plain text, an
\* analysis block, a completion keyword, an action plan at the start, and an
\* action plan after a text.
MarkedContents ==
    { <<>>, <<"w">>, AnalysisExample, <<"Done">>,
      <<PlanMarker, "p">>, <<"w", " ", PlanMarker, "p">> }

\* One query whose responses carry the marked texts.
ContentNext ==
    \/ ConnectServer(TRUE)
    \/ turns = 0 /\ StartQuery("q")
    \/ \E resp \in ModelResponsesOf(MaxContentIds, SessionRequestKinds, MarkedContents) :
          LLMRespond1(resp)
    \/ ExecuteToolBegin
    \/ \E id \in outstanding : ExecuteToolEnd(id, "text")
    \/ \E resp \in ModelResponsesOf(MaxContentIds, SessionRequestKinds, MarkedContents) :
          LLMRespond2(resp)
    \/ \E resp \in ModelResponsesOf(MaxContentIds, SessionRequestKinds, MarkedContents) :
          LLMRespond3(resp)

SpecContent == Init /\ [][ContentNext]_vars

\* Requests for a tool that is not registered, with arguments of every form,
\* and one request that is sent.
FailingRequestKinds ==
    { [name |-> "t1", arguments |-> "ok"],
      [name |-> "zz", arguments |-> "ok"],
      [name |-> "zz", arguments |-> "bad"],
      [name |-> "zz", arguments |-> "markup"],
      [name |-> "zz", arguments |-> "none"] }

MaxToolIds == 2     \* tool-call ids issued in a turn of failing requests

\* One query whose tool rounds hold failing requests.
ToolsNext ==
    \/ ConnectServer(TRUE)
    \/ turns = 0 /\ StartQuery("q")
    \/ \E resp \in ModelResponsesOf(MaxToolIds, FailingRequestKinds, {<<"w">>}) :
          LLMRespond1(resp)
    \/ ExecuteToolBegin
    \/ ExecuteToolRaises
    \/ \E id \in outstanding, result \in ProviderResults : ExecuteToolEnd(id, result)
    \/ \E resp \in ModelResponsesOf(MaxToolIds, FailingRequestKinds, {<<"w">>}) :
          LLMRespond2(resp)
    \/ \E resp \in ModelResponsesOf(MaxToolIds, FailingRequestKinds, {<<"w">>}) :
          LLMRespond3(resp)

SpecTools == Init /\ [][ToolsNext]_vars

\* A final content that repeats the action plan between two texts.
RepeatedPlan == <<"before", " ", PlanMarker, "p", DoubleBreak, "after">>

\* Texts with and without an action plan.
PlanContents == { <<"w">>, <<PlanMarker, "p">>, RepeatedPlan }

\* One query whose responses carry action plans.
DedupNext ==
    \/ ConnectServer(TRUE)
    \/ turns = 0 /\ StartQuery("q")
    \/ \E resp \in ModelResponsesOf(MaxContentIds, SessionRequestKinds, PlanContents) :
          LLMRespond1(resp)
    \/ ExecuteToolBegin
    \/ \E id \in outstanding : ExecuteToolEnd(id, "text")
    \/ \E resp \in ModelResponsesOf(MaxContentIds, SessionRequestKinds, PlanContents) :
          LLMRespond2(resp)
    \/ \E resp \in ModelResponsesOf(MaxContentIds, SessionRequestKinds, PlanContents) :
          LLMRespond3(resp)

SpecDedup == Init /\ [][DedupNext]_vars

\* What a first answer that raises may hold as content: nothing, an analysis
\* block, an action plan, an analysis block with the closing tag.
AbortContents ==
    {<<>>, AnalysisExample, <<PlanMarker, "p">>, <<AnalysisStart, BadTag, AnalysisEnd>>}

\* The session loop with padded commands and with turns that raise.
LoopNext ==
    \/ \E ok \in BOOLEAN : ConnectServer(ok)
    \/ CancelledConnecting
    \/ \E input \in Inputs : EmptyInput(input)
    \/ \E input \in Inputs, confirmed \in BOOLEAN : QuitCommand(input, confirmed)
    \/ \E input \in Inputs : ClearCommand(input)
    \/ \E input \in Inputs : HistoryCommand(input)
    \/ Interrupt
    \/ InterruptDeferred
    \/ Cancelled
    \/ \E input \in Inputs : RejectQuery(input)
    \/ \E input \in Inputs : StartQuery(input)
    \/ \E resp \in ModelResponsesOf(MaxLoopIds, RaisingRequestKinds, {<<"w">>}) :
          LLMRespond1(resp)
    \/ ExecuteToolBegin
    \/ ExecuteToolRaises
    \/ \E id \in outstanding : ExecuteToolEnd(id, "text")
    \/ \E resp \in ModelResponsesOf(MaxLoopIds, RaisingRequestKinds, {<<"w">>}) :
          LLMRespond2(resp)
    \/ \E resp \in ModelResponsesOf(MaxLoopIds, RaisingRequestKinds, {<<"w">>}) :
          LLMRespond3(resp)
    \/ MalformedFollowUp
    \/ CancelledInTurn
    \/ \E content \in AbortContents : AbortTurn(content)

SpecLoop == Init /\ [][LoopNext]_vars

\* Command lines naming two provider scripts that both declare t1.
ProviderPaths == { <<"a.py", "b.py">>, <<"b.py", "a.py">> }

ProviderRequestKinds ==
    { [name |-> "t1", arguments |-> "ok"], [name |-> "t2", arguments |-> "ok"] }

ProvidersInit ==
    /\ max_tokens = SessionBudget
    /\ buffer = SessionBuffer
    /\ mem_messages = <<>>
    /\ ret = NoRet
    /\ \E paths \in ProviderPaths : AgentConstructed(paths)

\* One query put to an agent started with two provider scripts, each of which
\* may fail to connect.
ProvidersNext ==
    \/ \E ok \in BOOLEAN : ConnectServer(ok)
    \/ turns = 0 /\ StartQuery("q")
    \/ \E resp \in ModelResponsesOf(MaxProviderIds, ProviderRequestKinds, {<<"w">>}) :
          LLMRespond1(resp)
    \/ ExecuteToolBegin
    \/ \E id \in outstanding : ExecuteToolEnd(id, "text")
    \/ \E resp \in ModelResponsesOf(MaxProviderIds, ProviderRequestKinds, {<<"w">>}) :
          LLMRespond2(resp)
    \/ \E resp \in ModelResponsesOf(MaxProviderIds, ProviderRequestKinds, {<<"w">>}) :
          LLMRespond3(resp)

SpecProviders == ProvidersInit /\ [][ProvidersNext]_vars

\* The context whose exit aclose() runs next: of those not yet exited the one
\* entered last; 0 when none is left.
NextExit ==
    IF \E i \in DOMAIN exit_stack : exit_stack[i].exit = "none"
    THEN CHOOSE i \in DOMAIN exit_stack :
            /\ exit_stack[i].exit = "none"
            /\ \A j \in DOMAIN exit_stack : exit_stack[j].exit = "none" => j <= i
    ELSE 0

\* Variant: the exit releases only the contexts of providers that connected.
ExitDoneIfConnected(entry) ==
    IF \E i \in 1..Len(sessions) : sessions[i] = entry.path
    THEN [entry EXCEPT !.open = FALSE, !.exit = "done"]
    ELSE [entry EXCEPT !.exit = "done"]

\* The exit of a context runs to its end: the context is released.
ExitDone(entry) == [entry EXCEPT !.open = FALSE, !.exit = "done"]

\* main_agent's finally clause is reached: await agent.shutdown(), which
\* awaits self.exit_stack.aclose().
Shutdown ==
    /\ pc \in {"stopped", "failed"}
    /\ pc' = "closing"
    /\ UNCHANGED <<exit_stack, cancel_requested, must_cancel>>
    /\ UNCHANGED <<mem_vars, server_paths, conn_idx, sessions, tools, tool_to_session,
                   last_input, turns, next_id, turn_vars>>

\* aclose() exits the contexts last entered first, one exit after the other.
ExitContext ==
    /\ pc \in {"closing", "aborting"}
    /\ NextExit > 0
    /\ ~must_cancel
    /\ exit_stack' = [exit_stack EXCEPT ![NextExit] = ExitDone(@)]
    /\ UNCHANGED <<pc, cancel_requested, must_cancel>>
    /\ UNCHANGED <<mem_vars, server_paths, conn_idx, sessions, tools, tool_to_session,
                   last_input, turns, next_id, turn_vars>>

\* A cancellation still pending when shutdown begins is delivered at the
\* first suspension of aclose(), inside the first exit it runs; aclose()
\* carries the CancelledError through the exits that remain.  Whether an exit
\* that is cut still releases its context is decided by the context manager
\* (stdio_client and ClientSession of the mcp package), not by this program:
\* both outcomes are kept.
ExitCancelled ==
    /\ pc = "closing"
    /\ NextExit > 0
    /\ must_cancel
    /\ \E released \in BOOLEAN :
          exit_stack' = [exit_stack EXCEPT ![NextExit] =
                                            [@ EXCEPT !.open = ~released, !.exit = "cut"]]
    /\ must_cancel' = FALSE
    /\ UNCHANGED <<pc, cancel_requested>>
    /\ UNCHANGED <<mem_vars, server_paths, conn_idx, sessions, tools, tool_to_session,
                   last_input, turns, next_id, turn_vars>>

\* An interrupt signal arrives while aclose() is suspended in an exit.  The
\* first signal of the run cancels the main task there.  A later one raises
\* KeyboardInterrupt out of the event loop, and asyncio.run, closing its
\* runner, cancels the main task and runs it on: in both cases the exit under
\* way is cut and the exits that remain are run.
ExitInterrupted ==
    /\ pc = "closing"
    /\ NextExit > 0
    /\ ~must_cancel
    /\ \E released \in BOOLEAN :
          exit_stack' = [exit_stack EXCEPT ![NextExit] =
                                            [@ EXCEPT !.open = ~released, !.exit = "cut"]]
    /\ cancel_requested' = TRUE
    /\ pc' = IF cancel_requested THEN "aborting" ELSE "closing"
    /\ UNCHANGED must_cancel
    /\ UNCHANGED <<mem_vars, server_paths, conn_idx, sessions, tools, tool_to_session,
                   last_input, turns, next_id, turn_vars>>

\* An interrupt signal arrives while asyncio.run closes its runner, which has
\* put the default signal handler back: KeyboardInterrupt ends the run and
\* the exits that remain are never run.
ExitAborted ==
    /\ pc = "aborting"
    /\ NextExit > 0
    /\ pc' = "aborted"
    /\ UNCHANGED <<exit_stack, cancel_requested, must_cancel>>
    /\ UNCHANGED <<mem_vars, server_paths, conn_idx, sessions, tools, tool_to_session,
                   last_input, turns, next_id, turn_vars>>

\* No exit is left to run: aclose() is over, and with it the main task and
\* any cancellation asked of it.
ShutdownDone ==
    /\ pc \in {"closing", "aborting"}
    /\ NextExit = 0
    /\ pc' = "closed"
    /\ must_cancel' = FALSE
    /\ UNCHANGED <<exit_stack, cancel_requested>>
    /\ UNCHANGED <<mem_vars, server_paths, conn_idx, sessions, tools, tool_to_session,
                   last_input, turns, next_id, turn_vars>>

\* main_agent from the connections to shutdown, with one query.
MainNext ==
    \/ \E ok \in BOOLEAN : ConnectServer(ok)
    \/ CancelledConnecting
    \/ \E confirmed \in BOOLEAN : QuitCommand("quit", confirmed)
    \/ InterruptDeferred
    \/ Cancelled
    \/ CancelledInTurn
    \/ turns = 0 /\ StartQuery("q")
    \/ \E resp \in ModelResponsesOf(MaxMainIds, RaisingRequestKinds, {<<"w">>}) :
          LLMRespond1(resp)
    \/ ExecuteToolBegin
    \/ ExecuteToolRaises
    \/ \E id \in outstanding : ExecuteToolEnd(id, "text")
    \/ \E resp \in ModelResponsesOf(MaxMainIds, RaisingRequestKinds, {<<"w">>}) :
          LLMRespond2(resp)
    \/ \E resp \in ModelResponsesOf(MaxMainIds, RaisingRequestKinds, {<<"w">>}) :
          LLMRespond3(resp)
    \/ Shutdown
    \/ ExitContext
    \/ ExitCancelled
    \/ ExitInterrupted
    \/ ExitAborted
    \/ ShutdownDone

\* The finally clause runs once the try block is left, and aclose() goes from
\* one exit to the next.
SpecMain ==
    /\ ProvidersInit
    /\ [][MainNext]_vars
    /\ WF_vars(Shutdown \/ ExitContext \/ ExitCancelled \/ ShutdownDone)

\* Command lines that mix server scripts with a path of another extension.
MixedPaths == { <<"x.txt", "a.py", "b.py">>, <<"a.py", "c.js", "x.txt">> }

MixedInit ==
    /\ max_tokens = SessionBudget
    /\ buffer = SessionBuffer
    /\ mem_messages = <<>>
    /\ ret = NoRet
    /\ \E paths \in MixedPaths : AgentConstructed(paths)

\* One query put to an agent started with a mixed command line.
SpecConnect == MixedInit /\ [][ProvidersNext]_vars

-----------------------------------------------------------------------------
(* The memory driven through its API *)

\* A text that costs more than the trim notice.
LongText == <<"w", "w", "w", "w", "w", "w", "w">>

Call1 == ToolCallEntry("c1", "t1", "ok")

\* Messages of different shapes and costs handed to add_message.
MemMessages ==
    { Msg("user", <<"q">>),
      Msg("assistant", LongText),
      Message("assistant", <<>>, <<Call1>>, "", ""),
      Message("tool", <<>>, NoCalls, "c1", "t1") }

CurrentMessages == { Msg("user", <<"q">>), Msg("user", <<>>) }

MemInit ==
    /\ max_tokens \in 0..MaxBudget
    /\ buffer \in 0..MaxBuffer
    /\ mem_messages = <<>>
    /\ ret = NoRet
    /\ AgentConstructed(<<>>)

\* Variant: a message whose role is not one of the four known is dropped.
AddMessageValidated(m) ==
    /\ Len(mem_messages) < MaxLog
    /\ mem_messages' = IF m.role \in {"system", "user", "assistant", "tool"}
                       THEN Append(mem_messages, m) ELSE mem_messages
    /\ ret' = [op |-> "add", message |-> m]
    /\ UNCHANGED <<max_tokens, buffer>>
    /\ UNCHANGED agent_vars

AddMessage(m) ==
    /\ Len(mem_messages) < MaxLog
    /\ mem_messages' = Append(mem_messages, m)
    /\ ret' = [op |-> "add", message |-> m]
    /\ UNCHANGED <<max_tokens, buffer>>
    /\ UNCHANGED agent_vars

ClearHistory ==
    /\ mem_messages' = <<>>
    /\ ret' = [op |-> "clear"]
    /\ UNCHANGED <<max_tokens, buffer>>
    /\ UNCHANGED agent_vars

GenerateSummary ==
    /\ ret' = [op |-> "summary", result |-> generate_summary]
    /\ UNCHANGED <<max_tokens, buffer, mem_messages>>
    /\ UNCHANGED agent_vars

BuildContext(system_msg, current_msg, tools_tokens) ==
    /\ ret' = [op |-> "build", system_msg |-> system_msg, current_msg |-> current_msg,
               tools_tokens |-> tools_tokens,
               result |-> build_context_messages(system_msg, current_msg, tools_tokens)]
    /\ mem_messages' = MessagesAfterBuild(system_msg, current_msg, tools_tokens)
    /\ UNCHANGED <<max_tokens, buffer>>
    /\ UNCHANGED agent_vars

MemNext ==
    \/ \E m \in MemMessages : AddMessage(m)
    \/ ClearHistory
    \/ GenerateSummary
    \/ \E cur \in CurrentMessages, tt \in 0..MaxSchemaTokens :
          BuildContext(SystemMsg, cur, tt)

SpecMemory == MemInit /\ [][MemNext]_vars

\* Messages of every shape, a role outside the known four included: the
\* dataclass accepts any string.
AnyMessages ==
    MemMessages \cup { Msg("bogus", <<"w">>), Msg("bogus", <<>>), Msg("system", <<>>) }

SummaryInit ==
    /\ max_tokens = SessionBudget
    /\ buffer = SessionBuffer
    /\ mem_messages = <<>>
    /\ ret = NoRet
    /\ AgentConstructed(<<>>)

\* The log driven by add_message, clear_history and generate_summary alone.
SummaryNext ==
    \/ \E m \in AnyMessages : AddMessage(m)
    \/ ClearHistory
    \/ GenerateSummary

SpecSummary == SummaryInit /\ [][SummaryNext]_vars

\* Messages with every combination of role and of empty and non-empty fields.
SerialMessages ==
    { Message(role, content, tcs, id, name) :
        role \in {"system", "user", "assistant", "tool"},
        content \in {<<>>, <<"w">>, LongText},
        tcs \in {NoCalls, <<Call1>>},
        id \in {"", "c1"},
        name \in {"", "t1"} }

\* Dicts handed to calculate_token_count: serialized messages, a dict without
\* a content key and a dict whose tool_calls list is empty.
EstimateDicts ==
    { to_dict(Msg("user", <<"q">>)),
      to_dict(Msg("assistant", <<>>)),
      to_dict(Message("assistant", LongText, <<Call1, Call1>>, "", "")),
      to_dict(Message("tool", <<>>, NoCalls, "c1", "t1")),
      ("role" :> "assistant") @@ ("content" :> <<"w">>) @@ ("tool_calls" :> <<>>) }

\* The lists of at most MaxEstimate of these dicts.
EstimateInputs ==
    UNION { [1..n -> EstimateDicts] : n \in 0..MaxEstimate }

\* m.to_dict()
Serialize(m) ==
    /\ ret' = [op |-> "to_dict", message |-> m, result |-> to_dict(m)]
    /\ UNCHANGED <<max_tokens, buffer, mem_messages>>
    /\ UNCHANGED agent_vars

\* calculate_token_count reads msgs and assigns to nothing but num_tokens.
MessagesAfterCount(msgs) == msgs

\* memory.calculate_token_count(msgs)
Estimate(msgs) ==
    /\ ret' = [op |-> "count", messages |-> msgs, result |-> calculate_token_count(msgs),
               messages_after |-> MessagesAfterCount(msgs)]
    /\ UNCHANGED <<max_tokens, buffer, mem_messages>>
    /\ UNCHANGED agent_vars

\* The two pure functions applied to inputs of every shape.
PureNext ==
    \/ \E m \in SerialMessages : Serialize(m)
    \/ \E msgs \in EstimateInputs : Estimate(msgs)

SpecPure == SummaryInit /\ [][PureNext]_vars

-----------------------------------------------------------------------------
(* Properties of build_context_messages *)

RECURSIVE SumSingle(_, _)
\* The summed single-message estimates of msgs[i..].
SumSingle(msgs, i) ==
    IF i > Len(msgs) THEN 0
    ELSE calculate_token_count(<<msgs[i]>>) + SumSingle(msgs, i + 1)

Built == ret.op = "build"

\* The reservation of the last build call, from its arguments.
RetReserved ==
    calculate_token_count(<<to_dict(ret.system_msg)>>)
    + calculate_token_count(<<to_dict(ret.current_msg)>>)
    + ret.tools_tokens + buffer

RetAvailable == max_tokens - RetReserved

IsNoticeDict(d) ==
    /\ d["role"] = "system"
    /\ "content" \in DOMAIN d
    /\ Len(d["content"]) > 0
    /\ d["content"][1] = "[Note:"

HasNotice(result) == \E i \in 1..Len(result) : IsNoticeDict(result[i])

\* The returned history without a leading trim notice.
Selected(result) ==
    IF result # <<>> /\ IsNoticeDict(result[1]) THEN Tail(result) ELSE result

\* h is a subsequence of l from positions i and j on.
RECURSIVE IsSubseqFrom(_, _, _, _)
IsSubseqFrom(h, i, l, j) ==
    IF i > Len(h) THEN TRUE
    ELSE IF j > Len(l) THEN FALSE
    ELSE IF h[i] = l[j] THEN IsSubseqFrom(h, i + 1, l, j + 1)
    ELSE IsSubseqFrom(h, i, l, j + 1)

LogDicts == [i \in 1..Len(mem_messages) |-> to_dict(mem_messages[i])]

\* C1 as stated: the cost of the returned messages plus the reservation never
\* exceeds max_tokens, for every budget.
C1_WithinBudgetAlways ==
    Built => SumSingle(ret.result, 1) + RetReserved <= max_tokens

\* C1 amended: the summed cost of the returned messages (trim notice included)
\* never exceeds max(0, available); so the total stays within max_tokens
\* whenever the reservation alone does, and nothing is returned otherwise.
C1_WithinAvailable ==
    Built =>
        /\ RetReserved <= max_tokens
              => SumSingle(ret.result, 1) + RetReserved <= max_tokens
        /\ RetReserved > max_tokens => ret.result = <<>>

C1_Witness ==
    /\ Built
    /\ RetAvailable > 0
    /\ Len(ret.result) >= 3
    /\ IsNoticeDict(ret.result[1])
    /\ SumSingle(ret.result, 1) = RetAvailable

\* C6: when available <= 0 the returned sequence is empty, whatever the log holds.
C6_EmptyWhenNothingAvailable ==
    (Built /\ RetAvailable <= 0) => ret.result = <<>>

C6_Witness ==
    /\ Built
    /\ RetAvailable <= 0
    /\ max_tokens > 0
    /\ Len(mem_messages) >= 2
    /\ ret.result = <<>>

\* C7: the returned history messages (the notice aside) appear in the order
\* they have in the stored log.
C7_ChronologicalOrder ==
    Built => IsSubseqFrom(Selected(ret.result), 1, LogDicts, 1)

C7_Witness ==
    /\ Built
    /\ Len(Selected(ret.result)) >= 2
    /\ Selected(ret.result)[1] # Selected(ret.result)[2]
    /\ Len(Selected(ret.result)) < Len(mem_messages)

\* C8: a message was excluded and the notice fits: the first element is the
\* notice counting len(H) - len(selected); it does not fit: no notice; nothing
\* was excluded: no notice.
C8_TrimNotice ==
    Built =>
        LET selected == Selected(ret.result)
            excluded == Len(mem_messages) - Len(selected)
            expected == to_dict(Msg("system", NoticeContent(excluded)))
            fits == calculate_token_count(<<expected>>) + SumSingle(selected, 1)
                        <= RetAvailable
        IN /\ (excluded >= 1 /\ fits) => (ret.result # <<>> /\ ret.result[1] = expected)
           /\ (excluded >= 1 /\ ~fits) => ~HasNotice(ret.result)
           /\ excluded = 0 => ~HasNotice(ret.result)

C8_Witness ==
    /\ Built
    /\ Len(ret.result) = 2
    /\ ret.result[1] = to_dict(Msg("system", NoticeContent(2)))
    /\ Len(mem_messages) = 3

C8_WitnessNoFit ==
    /\ Built
    /\ RetAvailable > 0
    /\ Len(ret.result) < Len(mem_messages)
    /\ ret.result # <<>>
    /\ ~HasNotice(ret.result)

\* C9: a call of build_context_messages leaves the stored log as it was.
C9_BuildLeavesLog ==
    [][ret'.op = "build" => mem_messages' = mem_messages]_vars

C9_Witness ==
    /\ Built
    /\ Len(mem_messages) = 3
    /\ Len(ret.result) = 2
    /\ IsNoticeDict(ret.result[1])

-----------------------------------------------------------------------------
(* Properties of execute_query and of the tool rounds *)

TurnOver == pc = "reading" /\ last_input = "query"

RequestIds(tcs) == {tcs[i].id : i \in 1..Len(tcs)}

CalledIds == {provider_calls[i].id : i \in 1..Len(provider_calls)}

\* The dict d is the tool message of request tc.
IsToolDictOf(d, tc) ==
    /\ d["role"] = "tool"
    /\ "tool_call_id" \in DOMAIN d
    /\ d["tool_call_id"] = tc.id
    /\ "name" \in DOMAIN d
    /\ d["name"] = tc.function.name

IsToolMessageOf(m, tc) ==
    m.role = "tool" /\ m.tool_call_id = tc.id /\ m.name = tc.function.name

\* C2: in one execute_query the tool sub-protocol runs at most twice and the
\* model is invoked at most three times; a third response that requests tools
\* has none of them executed and its content is what is recorded as final.
C2_RoundBound ==
    /\ tool_rounds <= 2
    /\ llm_calls <= 3
    /\ (TurnOver /\ llm_calls = 3 /\ ~response.failed /\ response.tool_calls # <<>>) =>
          /\ RequestIds(response.tool_calls) \cap CalledIds = {}
          /\ \A i \in 1..Len(mem_messages) :
                mem_messages[i].tool_call_id \notin RequestIds(response.tool_calls)
          /\ tool_rounds = 2
          /\ response.content # <<>> =>
                mem_messages[Len(mem_messages)] = Msg("assistant", response.content)

C2_Witness ==
    /\ TurnOver
    /\ llm_calls = 3
    /\ tool_rounds = 2
    /\ response.tool_calls # <<>>
    /\ response.content # <<>>
    /\ Len(provider_calls) = 2

\* C3 as stated: every finished turn has returned a non-empty output text.
C3_AlwaysSomeOutput == TurnOver => output # <<>>

\* The tool-call entries of the assistant messages of the log.
LoggedRequests ==
    UNION { {mem_messages[i].tool_calls[k] : k \in 1..Len(mem_messages[i].tool_calls)} :
            i \in 1..Len(mem_messages) }

\* C4 as stated: when a round of n requests is over, each request has exactly
\* one tool message carrying its id and name in the in-flight list and exactly
\* one in the log, and the round has added n tool messages to each; and
\* whenever no round is under way, however the last one ended, every request
\* that was given to a round has exactly one tool message in the log.
C4_OneToolMessagePerRequest ==
    /\ (pc \in {"llm2", "llm3"}) =>
        LET n == Len(tool_calls)
        IN /\ \A i \in 1..n :
                /\ Cardinality({j \in 1..Len(messages) :
                                   IsToolDictOf(messages[j], tool_calls[i])}) = 1
                /\ Cardinality({j \in 1..Len(mem_messages) :
                                   IsToolMessageOf(mem_messages[j], tool_calls[i])}) = 1
           /\ \E a \in 1..Len(messages) :
                /\ "tool_calls" \in DOMAIN messages[a]
                /\ messages[a]["tool_calls"] = tool_calls
                /\ Len(messages) - a = n
                /\ \A j \in (a + 1)..Len(messages) : messages[j]["role"] = "tool"
           /\ \E a \in 1..Len(mem_messages) :
                /\ mem_messages[a].tool_calls = tool_calls
                /\ Len(mem_messages) - a = n
                /\ \A j \in (a + 1)..Len(mem_messages) : mem_messages[j].role = "tool"
    /\ (pc \notin {"tools1", "tools2"}) =>
        \A tc \in LoggedRequests :
            Cardinality({j \in 1..Len(mem_messages) :
                            IsToolMessageOf(mem_messages[j], tc)}) = 1

\* C5: at most one provider call is outstanding, a call starts only when the
\* tool messages of all earlier requests of the batch are appended, and the
\* tool messages follow the assistant message in request order, in the
\* in-flight list and in the log.
C5_SequentialInOrder ==
    (pc \in {"tools1", "tools2", "llm2", "llm3"}) =>
        LET done == tc_idx - Cardinality(outstanding)
            base == Len(messages) - done
            mbase == Len(mem_messages) - done
        IN /\ Cardinality(outstanding) <= 1
           /\ outstanding # {} => outstanding = {tool_calls[tc_idx].id}
           /\ base >= 1 /\ mbase >= 1
           /\ "tool_calls" \in DOMAIN messages[base]
           /\ messages[base]["tool_calls"] = tool_calls
           /\ mem_messages[mbase].tool_calls = tool_calls
           /\ \A i \in 1..done :
                /\ IsToolDictOf(messages[base + i], tool_calls[i])
                /\ IsToolMessageOf(mem_messages[mbase + i], tool_calls[i])

C5_Witness ==
    /\ pc = "tools1"
    /\ Len(tool_calls) = 3
    /\ tc_idx = 2
    /\ outstanding = {tool_calls[2].id}
    /\ mem_messages[Len(mem_messages)].content = <<"r">>

\* C10: the log changes only by one message appended at its end, or by being
\* emptied by the clear command; after clear it is empty.
C10_AppendOnlyOrCleared ==
    [][ /\ \/ mem_messages' = mem_messages
           \/ /\ Len(mem_messages') = Len(mem_messages) + 1
              /\ SubSeq(mem_messages', 1, Len(mem_messages)) = mem_messages
           \/ last_input' = "clear" /\ mem_messages' = <<>>
        /\ last_input' = "clear" => mem_messages' = <<>> ]_vars

C10_Witness ==
    /\ pc = "reading"
    /\ turns = 2
    /\ Len(mem_messages) = 3
    /\ mem_messages[3].role = "tool"

-----------------------------------------------------------------------------
(* Properties of the durable log over a session *)

\* C11: in the log every tool-role message carries the id of a tool-call entry
\* of an assistant-role message placed earlier in the log.
C11_ToolMessageAnswersEarlierRequest ==
    \A i \in 1..Len(mem_messages) :
        mem_messages[i].role = "tool" =>
            \E j \in 1..(i - 1) :
                /\ mem_messages[j].role = "assistant"
                /\ mem_messages[i].tool_call_id \in RequestIds(mem_messages[j].tool_calls)

\* Two turns with a clear between them, each with a tool call.
C11_Witness ==
    /\ pc = "reading"
    /\ turns = 2
    /\ Len(mem_messages) = 4
    /\ mem_messages[3].role = "tool"
    /\ mem_messages[3].tool_call_id = CallId(2)
    /\ mem_messages[4].role = "assistant"

-----------------------------------------------------------------------------
(* Properties of the ways a turn ends *)

\* sub occurs in text as a run of consecutive symbols.
IsInfix(sub, text) ==
    \E i \in 0..(Len(text) - Len(sub)) : SubSeq(text, i + 1, i + Len(sub)) = sub

\* C12: when a model invocation of a turn fails, first or follow-up, that step
\* ends the turn: no model call, tool round or provider call is added, one
\* assistant message holding the error text, which quotes the text of the
\* backend's exception, becomes the last message of the log, execute_query
\* returns an output that contains the error text, and the loop goes on
\* reading as after any query.
C12_FailureEndsTurn ==
    [][ (pc \in {"llm1", "llm2", "llm3"} /\ response'.failed) =>
          LET invoke == "Failed to invoke LLM: " \o response'.error
              err == IF pc = "llm1"
                     THEN <<"Failed to get response:", invoke>>
                     ELSE <<"[Failed to get final response:", invoke, "]">>
          IN /\ pc' = "reading"
             /\ last_input' = "query"
             /\ llm_calls' = llm_calls
             /\ tool_rounds' = tool_rounds
             /\ provider_calls' = provider_calls
             /\ outstanding' = {}
             /\ mem_messages' = Append(mem_messages, Msg("assistant", err))
             /\ IsInfix(err, output')
             /\ pc = "llm1" => output' = err ]_vars

\* The call after the second tool round fails with 'timeout', an earlier text
\* being kept.
C12_Witness ==
    /\ TurnOver
    /\ response.failed
    /\ llm_calls = 3
    /\ tool_rounds = 2
    /\ mem_messages[Len(mem_messages)] =
          Msg("assistant", <<"[Failed to get final response:",
                             "Failed to invoke LLM: timeout", "]">>)
    /\ output = <<"w", "\n", "[Failed to get final response:",
                  "Failed to invoke LLM: timeout", "]">>

\* The first call fails with 'boom'.
C12_WitnessFirstCall ==
    /\ TurnOver
    /\ response.failed
    /\ llm_calls = 1
    /\ mem_messages = <<Msg("user", <<"q">>),
                        Msg("assistant", <<"Failed to get response:",
                                           "Failed to invoke LLM: boom">>)>>
    /\ output = <<"Failed to get response:", "Failed to invoke LLM: boom">>

\* The response that ended the turn carried neither content nor tool calls.
EndedOnEmptyResponse ==
    /\ TurnOver
    /\ ~response.failed
    /\ response.content = <<>>
    /\ response.tool_calls = <<>>

\* C13 as stated: whenever the response that ends a turn, first or after a tool
\* round, has no content and no tool calls, the output contains the placeholder
\* text and an assistant message carrying it is the last message of the log.
C13_PlaceholderAtEveryEnd ==
    EndedOnEmptyResponse =>
        /\ IsInfix(NoContentText, output)
        /\ mem_messages[Len(mem_messages)] = Msg("assistant", NoContentText)

\* C14 as stated, on its example: a first response without tool calls whose
\* content is '<analysis>check disk space</analysis>All good.' shows 'check
\* disk space' in the analysis panel and the turn returns 'All good.'.
C14_AnalysisExampleOutput ==
    (TurnOver /\ llm_calls = 1 /\ response = Response(AnalysisExample, <<>>)) =>
        /\ displayed = <<Panel("analysis", <<"check disk space">>)>>
        /\ output = <<"All good.">>

\* C15 as stated: the first response requests exactly one tool call and the
\* second has content and no tool calls: the log holds the user message, one
\* assistant tool-call message, one tool message and the final message, the
\* model was invoked twice, and the output is the second response's content.
C15_SecondResponseVerbatim ==
    ( /\ TurnOver
      /\ llm_calls = 2
      /\ ~response.failed
      /\ response.content # <<>>
      /\ response.tool_calls = <<>>
      /\ Len(mem_messages) >= 2
      /\ Len(mem_messages[2].tool_calls) = 1 ) =>
        /\ Len(mem_messages) = 4
        /\ mem_messages[2].role = "assistant"
        /\ mem_messages[3].role = "tool"
        /\ mem_messages[4] = Msg("assistant", response.content)
        /\ output = response.content

\* C16: when the response that ends a turn after a tool round has non-empty
\* content, that step appends exactly one assistant message holding the
\* content as received, whichever way the content is routed.
C16_FinalContentRecordedOnce ==
    [][ ( /\ pc \in {"llm2", "llm3"}
          /\ pc' = "reading"
          /\ ~response'.failed
          /\ response'.content # <<>> ) =>
            mem_messages' = Append(mem_messages, Msg("assistant", response'.content)) ]_vars

\* The action plan was displayed and the final content starts with the marker:
\* nothing is left for the output, the log holds the content as received.
C16_Witness ==
    /\ TurnOver
    /\ tool_rounds = 1
    /\ displayed = <<Panel("plan", <<PlanMarker, "p">>)>>
    /\ response.content = <<PlanMarker, "p">>
    /\ output = <<>>
    /\ mem_messages[Len(mem_messages)] = Msg("assistant", <<PlanMarker, "p">>)

\* The text before a repeated marker is kept stripped, the log is not.
C16_WitnessStripped ==
    /\ TurnOver
    /\ tool_rounds = 2
    /\ response.content = <<"w", " ", PlanMarker, "p">>
    /\ output = <<"w">>
    /\ mem_messages[Len(mem_messages)] = Msg("assistant", <<"w", " ", PlanMarker, "p">>)

C16_WitnessCompleted ==
    /\ TurnOver
    /\ tool_rounds = 1
    /\ displayed = <<Panel("completed", <<"Done">>)>>
    /\ output = <<>>
    /\ mem_messages[Len(mem_messages)] = Msg("assistant", <<"Done">>)

-----------------------------------------------------------------------------
(* Properties of the tool registry *)

Declares(path, name) ==
    \E i \in 1..Len(ProviderTools(path)) : ProviderTools(path)[i] = name

\* C17: when two connected providers both declare a name, the name resolves to
\* the one connected second, and every call of that tool was sent to it.
C17_SecondProviderWins ==
    (Len(sessions) = 2) =>
        \A name \in {"t1", "t2"} :
            (Declares(sessions[1], name) /\ Declares(sessions[2], name)) =>
                /\ tool_to_session[name] = sessions[2]
                /\ \A i \in 1..Len(provider_calls) :
                      provider_calls[i].name = name =>
                          provider_calls[i].session = sessions[2]

C17_Witness ==
    /\ sessions = <<"a.py", "b.py">>
    /\ Len(provider_calls) = 2
    /\ provider_calls[1] = [id |-> CallId(1), name |-> "t1", session |-> "b.py"]
    /\ provider_calls[2].name = "t2"

C17_WitnessOtherOrder ==
    /\ sessions = <<"b.py", "a.py">>
    /\ Len(provider_calls) = 1
    /\ provider_calls[1] = [id |-> CallId(1), name |-> "t1", session |-> "a.py"]

\* C18 as stated: the schema list holds each registered name exactly once, and
\* has as many entries as the name-to-provider map has names.
C18_SchemaNamesOnce ==
    /\ \A name \in DOMAIN tool_to_session :
          Cardinality({i \in 1..Len(build_tool_schemas) :
                          build_tool_schemas[i].function.name = name}) = 1
    /\ Len(build_tool_schemas) = Cardinality(DOMAIN tool_to_session)

-----------------------------------------------------------------------------
(* Properties of the session loop *)

\* The command a typed text names once trimmed and lowercased, "" for none.
CommandNamed(text) ==
    IF text \in {"quit", "clear", "history"} THEN text
    ELSE IF text \in {"Clear", " Clear ", " clear "} THEN "clear"
    ELSE ""

\* C19: a typed line that equals a command after trimming and lowercasing is
\* executed as that command (the step of the command can take it) and is
\* never handed to execute_query or rejected as a query; so no user message
\* of the log holds one.
C19_PaddedCommandNotAQuery ==
    /\ \A i \in 1..Len(mem_messages) :
          mem_messages[i].role = "user" => CommandNamed(mem_messages[i].content[1]) = ""
    /\ pc = "reading" =>
          \A typed \in {"quit", "clear", "Clear", " Clear ", " clear ", "history"} :
             /\ ~ENABLED StartQuery(typed)
             /\ ~ENABLED RejectQuery(typed)
             /\ ~ENABLED EmptyInput(typed)
             /\ CommandNamed(typed) = "quit" => ENABLED QuitCommand(typed, TRUE)
             /\ CommandNamed(typed) = "clear" => ENABLED ClearCommand(typed)
             /\ CommandNamed(typed) = "history" => ENABLED HistoryCommand(typed)

\* The log was cleared after two turns and the loop reads on; ' Clear ' is
\* one of the lines that does it.
C19_Witness ==
    /\ pc = "reading"
    /\ last_input = "clear"
    /\ turns = 2
    /\ mem_messages = <<>>
    /\ ENABLED ClearCommand(" Clear ")

\* The states in which run_interactive_session is running.
LoopStates == {"reading", "llm1", "tools1", "llm2", "tools2", "llm3"}

\* C20 as stated, interrupt signals set aside: the loop is left only by a step
\* from reading input in which a quit was confirmed, and then it has stopped;
\* every other handling of an input, and the handling of an exception raised
\* by a turn, leaves it reading; and once stopped it stays stopped.
C20_StopsOnlyOnConfirmedQuit ==
    [][ /\ (pc \in LoopStates /\ pc' \notin LoopStates
            /\ ~must_cancel /\ cancel_requested' = cancel_requested)
              => (pc = "reading" /\ last_input' = "quit" /\ pc' = "stopped")
        /\ (pc' = "stopped" /\ pc # "stopped") => (pc = "reading" /\ last_input' = "quit")
        /\ (pc = "reading" /\ last_input' \in {"empty", "quit declined", "clear",
                                               "history error", "interrupt", "rejected"})
              => pc' = "reading"
        /\ last_input' = "error" => pc' = "reading"
        /\ pc = "stopped" => pc' = "stopped" ]_vars

\* C21: while no provider is connected no query reaches execute_query (no turn,
\* no model call, no provider call, nothing in the log: the program reads
\* input, has stopped, or was left while connecting), and the step that
\* rejects a query changes nothing but the loop's record of the input.
C21_QueryRejectedUnconnected ==
    [][ /\ (pc' \notin {"connecting"} /\ sessions' = <<>>) =>
              /\ turns' = 0
              /\ llm_calls' = 0
              /\ provider_calls' = <<>>
              /\ mem_messages' = <<>>
              /\ pc' \in {"reading", "stopped", "failed"}
        /\ last_input' = "rejected" =>
              /\ pc = "reading" /\ pc' = "reading"
              /\ UNCHANGED <<mem_vars, registry_vars, turns, next_id, turn_vars>> ]_vars

C21_Witness ==
    /\ pc = "reading"
    /\ sessions = <<>>
    /\ last_input = "rejected"
    /\ conn_idx = 1

\* C22 as stated: once the input 'history' is handled, the outcome is not an
\* error and the memory summary was the last call made on the memory, with a
\* message count equal to the length of the log.
C22_HistoryShowsSummary ==
    (pc = "reading" /\ last_input \in {"history", "history error"}) =>
        /\ last_input = "history"
        /\ ret.op = "summary"
        /\ ret.result.total = Len(mem_messages)

-----------------------------------------------------------------------------
(* Properties of the memory's log and of its serialization *)

\* C23: add_message(m) makes the count that generate_summary reports one more
\* than it was, for a message of any role, and a summary asked for right after
\* reports the length of the log with m at its end.
C23_SummaryReflectsAppend ==
    [][ /\ ret'.op = "add" =>
              /\ generate_summary'.total = generate_summary.total + 1
              /\ mem_messages' = Append(mem_messages, ret'.message)
        /\ (ret.op = "add" /\ ret'.op = "summary") =>
              /\ ret'.result.total = Len(mem_messages)
              /\ mem_messages[Len(mem_messages)] = ret.message
              /\ mem_messages' = mem_messages ]_vars

\* A summary taken right after a message of an unknown role was appended.
C23_Witness ==
    /\ ret.op = "summary"
    /\ ret.result.total = 3
    /\ mem_messages[3] = Msg("bogus", <<"w">>)
    /\ mem_messages[1].role = "tool"

-----------------------------------------------------------------------------
(* Properties of the connection phase *)

\* The paths of the command lines that end in .py or .js.
ScriptPaths == {"a.py", "b.py", "c.js"}

-----------------------------------------------------------------------------
(* Properties of shutdown *)

AllContextsClosed == \A i \in DOMAIN exit_stack : ~exit_stack[i].open

C25_WitnessAfterException ==
    /\ pc = "closed"
    /\ last_input = "error"
    /\ ~cancel_requested
    /\ sessions = <<"b.py">>
    /\ exit_stack = <<[kind |-> "stdio", path |-> "a.py", open |-> FALSE, exit |-> "done"],
                      [kind |-> "stdio", path |-> "b.py", open |-> FALSE, exit |-> "done"],
                      [kind |-> "session", path |-> "b.py", open |-> FALSE, exit |-> "done"]>>

\* Shutdown has run after the connection phase was cancelled while the second
\* provider was still to be connected.
C25_WitnessAfterCancel ==
    /\ pc = "closed"
    /\ conn_idx = 1
    /\ sessions = <<>>
    /\ exit_stack = <<[kind |-> "stdio", path |-> "a.py", open |-> FALSE, exit |-> "done"],
                      [kind |-> "session", path |-> "a.py", open |-> FALSE, exit |-> "done"]>>

-----------------------------------------------------------------------------
(* Properties of the marker blocks *)

\* C26 as stated: the text of a block shown in the analysis or plan panel is
\* contained neither in the assistant message recorded for the first response
\* (in the log and in the in-flight list) nor in the returned output.
C26_MarkerBlocksStripped ==
    \A i \in 1..Len(displayed) :
        displayed[i].panel \in {"analysis", "plan"} =>
            /\ Len(mem_messages) >= 2 =>
                  ~IsInfix(displayed[i].text, mem_messages[2].content)
            /\ Len(messages) >= 3 =>
                  ~IsInfix(displayed[i].text, messages[3]["content"])
            /\ TurnOver => ~IsInfix(displayed[i].text, output)

\* C27: a follow-up response opens no analysis and no plan panel (at most the
\* task-completed one), and its content is recorded as received; an analysis
\* block in a final response reaches the output with its tags.
C27_MarkersOnlyInFirstResponse ==
    [][ (pc \in {"llm2", "llm3"} /\ ~response'.failed) =>
          /\ \/ displayed' = displayed
             \/ /\ Len(displayed') = Len(displayed) + 1
                /\ SubSeq(displayed', 1, Len(displayed)) = displayed
                /\ displayed'[Len(displayed')].panel = "completed"
          /\ (response'.content # <<>> \/ pc' # "reading") =>
                mem_messages'[Len(mem_messages')].content = response'.content
          /\ (pc' = "reading" /\ response'.content = AnalysisExample) =>
                IsInfix(AnalysisExample, output') ]_vars

\* The third response is an analysis block: no panel, tags in the output.
C27_Witness ==
    /\ TurnOver
    /\ llm_calls = 3
    /\ response.content = AnalysisExample
    /\ displayed = <<>>
    /\ output = AnalysisExample

\* The second response holds the plan marker: no plan panel.
C27_WitnessPlan ==
    /\ TurnOver
    /\ llm_calls = 2
    /\ response.content = <<PlanMarker, "p">>
    /\ displayed = <<>>
    /\ output = <<PlanMarker, "p">>

-----------------------------------------------------------------------------
(* Properties of the calls a turn makes *)

\* C28: in a turn no request id is sent to a provider twice, a request whose
\* arguments do not parse or whose tool is unknown is never sent, and the
\* model is invoked once at the start and once after each tool round, so a
\* failed invocation, which ends the turn, is not issued again.
C28_NoRetries ==
    /\ \A i, j \in 1..Len(provider_calls) :
          provider_calls[i].id = provider_calls[j].id => i = j
    /\ CalledIds \subseteq {tc.id : tc \in LoggedRequests}
    /\ \A tc \in LoggedRequests :
          (tc.function.arguments = "bad" \/ tc.function.name = "zz") =>
              tc.id \notin CalledIds
    /\ llm_calls <= tool_rounds + 1
    /\ response.failed => (pc = "reading" /\ llm_calls = tool_rounds + 1)

\* A provider call raised, its error went into the log, and the model call
\* that followed failed: one provider call, two model calls.
C28_Witness ==
    /\ TurnOver
    /\ response.failed
    /\ llm_calls = 2
    /\ Len(provider_calls) = 1
    /\ Len(mem_messages) = 5
    /\ mem_messages[3].content = ParseErrorText
    /\ mem_messages[4].content = CallFailedText

\* C29: to_dict of a system, user or assistant message always has the content
\* key, holding the content (the empty text when there is none); to_dict of a
\* tool message has it exactly when the content is non-empty; tool_calls,
\* tool_call_id and name are present exactly when non-empty, with their values;
\* role is always present and no other key is.
C29_Serialization ==
    ret.op = "to_dict" =>
        LET m == ret.message
            d == ret.result
        IN /\ DOMAIN d \subseteq {"role", "content", "tool_calls", "tool_call_id", "name"}
           /\ "role" \in DOMAIN d /\ d["role"] = m.role
           /\ m.role \in {"system", "user", "assistant"} =>
                 ("content" \in DOMAIN d /\ d["content"] = m.content)
           /\ m.role = "tool" => ("content" \in DOMAIN d <=> m.content # <<>>)
           /\ "content" \in DOMAIN d => d["content"] = m.content
           /\ "tool_calls" \in DOMAIN d <=> m.tool_calls # <<>>
           /\ "tool_calls" \in DOMAIN d => d["tool_calls"] = m.tool_calls
           /\ "tool_call_id" \in DOMAIN d <=> m.tool_call_id # ""
           /\ "tool_call_id" \in DOMAIN d => d["tool_call_id"] = m.tool_call_id
           /\ "name" \in DOMAIN d <=> m.name # ""
           /\ "name" \in DOMAIN d => d["name"] = m.name

\* A tool message without content: no content key, the id and name present.
C29_Witness ==
    /\ ret.op = "to_dict"
    /\ ret.message = Message("tool", <<>>, NoCalls, "c1", "t1")
    /\ DOMAIN ret.result = {"role", "tool_call_id", "name"}

C29_WitnessAssistantEmpty ==
    /\ ret.op = "to_dict"
    /\ ret.message = Message("assistant", <<>>, <<Call1>>, "", "")
    /\ DOMAIN ret.result = {"role", "content", "tool_calls"}
    /\ ret.result["content"] = <<>>

\* The estimate of the one-message list of d, from the constants.
SingleEstimate(d) ==
    2 + 4
    + (IF "content" \in DOMAIN d THEN Len(d["content"]) ELSE 0)
    + (IF "tool_calls" \in DOMAIN d THEN 1 + 4 * Len(d["tool_calls"]) ELSE 0)

RECURSIVE SumOfSingles(_, _)
SumOfSingles(msgs, i) ==
    IF i > Len(msgs) THEN 0 ELSE SingleEstimate(msgs[i]) + SumOfSingles(msgs, i + 1)

\* C30: the estimate of a list is 2 plus, for each message, 4, the length of
\* its content and the length of its serialized tool-call list: the empty
\* list gives 2, a list of n >= 1 messages gives the sum of the n
\* single-message estimates minus 2*(n-1), and the list handed in is left as
\* it was.
C30_TokenEstimate ==
    ret.op = "count" =>
        LET msgs == ret.messages
            n == Len(msgs)
        IN /\ n = 0 => ret.result = 2
           /\ n = 1 => ret.result = SingleEstimate(msgs[1])
           /\ n >= 1 => ret.result = SumOfSingles(msgs, 1) - 2 * (n - 1)
           /\ n >= 1 => ret.result =
                            SumSingle(msgs, 1) - 2 * (n - 1)
           /\ ret.messages_after = msgs

\* Two messages, one with content and two tool calls, one with an empty
\* tool-call list: 2 + (4 + 7 + 9) + (4 + 1 + 1).
C30_Witness ==
    /\ ret.op = "count"
    /\ Len(ret.messages) = 2
    /\ ret.messages[1] = to_dict(Message("assistant", LongText, <<Call1, Call1>>, "", ""))
    /\ "tool_calls" \in DOMAIN ret.messages[2]
    /\ ret.messages[2]["tool_calls"] = <<>>
    /\ ret.result = 28


\* C31: an interrupt signal that arrives while the session loop is reading
\* input does not stop the session: the step that takes the signal shows the
\* hint and leaves the loop reading, with the durable log and the provider
\* registry unchanged and no cancellation left pending.
C31_InterruptKeepsSession ==
    [][ (pc = "reading"
         /\ (last_input' = "interrupt" \/ cancel_requested' # cancel_requested))
        => /\ last_input' = "interrupt"
           /\ pc' = "reading"
           /\ ~cancel_requested'
           /\ UNCHANGED <<mem_messages, registry_vars>> ]_vars


\* The last k messages of the log, serialized.
LogSuffix(k) == SubSeq(LogDicts, Len(mem_messages) - k + 1, Len(mem_messages))

\* The length of the longest suffix of the log whose summed single-message
\* costs do not exceed available.
LongestFittingSuffix(available) ==
    CHOOSE k \in 0..Len(mem_messages) :
        /\ SumSingle(LogSuffix(k), 1) <= available
        /\ \A j \in (k + 1)..Len(mem_messages) : SumSingle(LogSuffix(j), 1) > available

\* C32: greedy cutoff.  When available > 0 the history selected by
\* build_context_messages is exactly the longest contiguous suffix of the log
\* whose summed single-message costs do not exceed available, so no message
\* older than the first one that does not fit is included.
C32_GreedyCutoff ==
    (Built /\ RetAvailable > 0)
        => Selected(ret.result) = LogSuffix(LongestFittingSuffix(RetAvailable))

\* A build that stopped at a message that does not fit and left out an older
\* message that would still have fitted beside the ones selected.
C32_Witness ==
    /\ Built
    /\ RetAvailable > 0
    /\ LET k == Len(Selected(ret.result))
       IN /\ k >= 1
          /\ k + 2 <= Len(mem_messages)
          /\ \E j \in 1..(Len(mem_messages) - k - 1) :
                calculate_token_count(<<LogDicts[j]>>)
                + SumSingle(Selected(ret.result), 1) <= RetAvailable


\* C33: the step that starts a turn appends exactly one message, of role user,
\* to the log, and hands the first model call the list [system] + history +
\* [current]: the system message first, the appended user message last, and
\* between them (after a possible trim notice) a suffix of the log as it was
\* before the append, so the current message is not part of the history.  No
\* other step appends a user message.
C33_FirstCallList ==
    [][ /\ turns' # turns =>
              LET current == mem_messages'[Len(mem_messages')]
                  middle == Selected(SubSeq(messages', 2, Len(messages') - 1))
              IN /\ turns' = turns + 1
                 /\ pc' = "llm1"
                 /\ mem_messages' = Append(mem_messages, current)
                 /\ current.role = "user"
                 /\ Len(messages') >= 2
                 /\ messages'[1] = [role |-> "system", content |-> <<"sys">>]
                 /\ messages'[Len(messages')] = [role |-> "user", content |-> current.content]
                 /\ Len(middle) <= Len(mem_messages)
                 /\ middle = LogSuffix(Len(middle))
        /\ (/\ Len(mem_messages') > Len(mem_messages)
            /\ mem_messages'[Len(mem_messages')].role = "user") => turns' = turns + 1 ]_vars

\* The second turn of a session awaits its first model call with a list that
\* holds history between the system message and the current user message.
C33_Witness ==
    /\ pc = "llm1"
    /\ turns = 2
    /\ Len(messages) >= 4
    /\ messages[1]["role"] = "system"
    /\ messages[Len(messages)]["role"] = "user"
    /\ mem_messages[Len(mem_messages)].role = "user"
    /\ \E i \in 2..(Len(messages) - 1) : messages[i]["role"] = "tool"


\* C34 as stated: whenever a list is passed to the model, at each of the up to
\* three invocations of a turn, its estimated cost plus the tool-schema
\* reservation and the buffer does not exceed max_tokens.
C34_SentListWithinBudget ==
    pc \in {"llm1", "llm2", "llm3"} =>
        calculate_token_count(messages) + ToolsTokens(build_tool_schemas) + buffer
            <= max_tokens


\* C35 as stated: in every list passed to the model each tool-role message is
\* preceded, in that list, by an assistant-role message whose tool calls hold
\* the tool message's tool_call_id.
C35_ToolResultAfterItsRequest ==
    pc \in {"llm1", "llm2", "llm3"} =>
        \A i \in 1..Len(messages) :
            messages[i]["role"] = "tool" =>
                \E j \in 1..(i - 1) :
                    /\ messages[j]["role"] = "assistant"
                    /\ "tool_calls" \in DOMAIN messages[j]
                    /\ \E k \in 1..Len(messages[j]["tool_calls"]) :
                          messages[j]["tool_calls"][k].id = messages[i]["tool_call_id"]


\* The tool messages of the log that carry the id of request tc.
AnswersOf(tc) ==
    {i \in 1..Len(mem_messages) :
        mem_messages[i].role = "tool" /\ mem_messages[i].tool_call_id = tc.id}

\* C36 as stated: a request whose arguments parse but whose tool is not
\* registered is answered by a tool message with the request's id and name
\* holding the not-found error, and is never sent to a provider; a request
\* whose arguments do not parse is answered by the parse error, whatever its
\* tool name, and is never sent either.  Once the round is over each such
\* request is answered, and while the turn lasts the answer is in the
\* in-flight list too.
C36_EarlyToolErrors ==
    \A tc \in LoggedRequests :
        LET unknown == tc.function.name = "zz"
            unparsed == tc.function.arguments \in {"bad", "none"}
        IN (unknown \/ unparsed) =>
              /\ tc.id \notin CalledIds
              /\ tc.id \notin outstanding
              /\ (~InTools) => AnswersOf(tc) # {}
              /\ \A i \in AnswersOf(tc) :
                    /\ mem_messages[i].name = tc.function.name
                    /\ mem_messages[i].content =
                          IF unparsed
                          THEN <<"Error: Could not parse arguments.", "JSONDecodeError">>
                          ELSE <<"Error: Tool execution failed.", "Tool not found", "zz">>
                    /\ pc \in {"tools1", "tools2", "llm2", "llm3"} =>
                          \E j \in 1..Len(messages) : messages[j] = to_dict(mem_messages[i])


-----------------------------------------------------------------------------
(* Properties of the final content *)

\* C37 as stated: when a plan was displayed for the first response and the
\* final response repeats the action-plan marker, the content before the
\* marker and the content after the end of the repeated plan segment (after
\* its double line-break) are both part of what the turn returns.
C37_DedupKeepsRest ==
    ( /\ TurnOver
      /\ llm_calls >= 2
      /\ ~response.failed
      /\ response.content = RepeatedPlan
      /\ \E i \in 1..Len(displayed) : displayed[i].panel = "plan" ) =>
        /\ IsInfix(<<"before">>, output)
        /\ IsInfix(<<"after">>, output)


\* The text holds a completion keyword, in lower case or capitalised.
NamesCompletion(text) ==
    \E i \in 1..Len(text) :
        text[i] \in {"completed", "summary", "finished", "done", "successfully",
                     "saved", "created", "Done", "Saved"}

CompletedPanels(panels) == {i \in 1..Len(panels) : panels[i].panel = "completed"}

\* C38: the content of the response that ends a turn after a tool round, as
\* left by the plan dedup, takes exactly one of two ways: when it holds a
\* completion keyword, in whatever case, it is shown in the task-completed
\* panel and adds nothing to the returned output; otherwise it is appended to
\* the returned output and no panel is opened.  A first response without tool
\* calls never opens the task-completed panel.
C38_FinalContentRouting ==
    [][ /\ ( /\ pc \in {"llm2", "llm3"}
             /\ pc' = "reading"
             /\ ~response'.failed
             /\ response'.content # <<>> ) =>
               LET remaining == FinalContent(response'.content)
               IN IF NamesCompletion(remaining)
                  THEN /\ displayed' = Append(displayed, [panel |-> "completed",
                                                          text |-> remaining])
                       /\ output' = Join(output_parts)
                  ELSE /\ displayed' = displayed
                       /\ output' = Join(Append(output_parts, remaining))
        /\ (pc = "llm1" /\ pc' = "reading") =>
               CompletedPanels(displayed') = {} ]_vars

\* A turn whose first response was 'w' with a tool request and whose second
\* response is 'Done': the keyword is met capitalised, the content is in the
\* task-completed panel and the output holds the first content only.
C38_Witness ==
    /\ TurnOver
    /\ llm_calls = 2
    /\ response.content = <<"Done">>
    /\ displayed = <<[panel |-> "completed", text |-> <<"Done">>]>>
    /\ output = <<"w">>
    /\ mem_messages[2].content = <<"w">>

\* A first response 'Done' without tool calls: no task-completed panel, the
\* content is what the turn returns.
C38_WitnessFirst ==
    /\ TurnOver
    /\ llm_calls = 1
    /\ response.content = <<"Done">>
    /\ displayed = <<>>
    /\ output = <<"Done">>

=============================================================================
